---- MODULE Spec2Model ----
(***************************************************************************)
(* Campaign dispatch pipeline of the WhatsApp bulk-messaging backend:      *)
(*   - withRetry                (NodeBackend/server/dbRetry.ts)            *)
(*   - CampaignService          (uploadContacts, sendBulkMessages)         *)
(*   - VariationService         (generateVariation, prewarmVariations)     *)
(*   - bulk-message-generator   (the edge function numbering variations)   *)
(*   - blocklist storage        (DatabaseStorage / MemStorage)             *)
(* Each component is a small state machine over the shared tables; the     *)
(* specifications at the end compose the actions of one component group.   *)
(***************************************************************************)
EXTENDS Integers, Sequences, FiniteSets, TLC

VARIABLES
    rt,            \* the withRetry call in progress (dbRetry.ts)
    campaignsTbl,  \* table campaigns: id -> row
    recipientsTbl, \* table campaign_recipients, rows in insertion order
    variationsTbl, \* table message_variations, rows in created_at order
    blocked,       \* table blocked_numbers: set of digits-only phones
    edgeEnv,       \* environment of the edge function (secrets configured)
    edge,          \* edge-function invocations, one per caller
    extStarted,    \* history: requests started by the other clients
    genLog,        \* history: responses of the edge function, completion order
    overlapped,    \* history: campaigns with two invocations in flight at once
    readFailed,    \* history: campaigns for which a select of variations failed
    manualSaves,   \* history: number of saveMessageVariation inserts
    lastUpload,    \* history: the last uploadContacts call and what it stored
    run,           \* the sendBulkMessages call in progress
    sendLog,       \* history: the last transport send of the run
    pure,          \* the last application of a pure function and its result
    stopOption,    \* history: campaigns whose creation asked for the stop option
    inbound,       \* history: the last messages.upsert event and its handling
    memBlockedNumbers, \* MemStorage.blockedNumbers: digits-only phone -> reason
    dbBlockedNumbers,  \* DatabaseStorage: rows of blocked_numbers, insertion order
    blockCall,     \* history: the last blocklist call and both storages' answers
    listeners,     \* 'button-clicked' listeners registered on whatsAppService
    stopEvent,     \* history: the last button-clicked event and its handling
    run2           \* a second sendBulkMessages call, followed send by send

vars == <<rt, campaignsTbl, recipientsTbl, variationsTbl, blocked, edgeEnv, edge,
          extStarted, genLog, overlapped, readFailed, manualSaves, lastUpload,
          run, sendLog, pure, stopOption, inbound, memBlockedNumbers,
          dbBlockedNumbers, blockCall, listeners, stopEvent, run2>>

retryVars == <<rt>>
storeVars == <<campaignsTbl, recipientsTbl, blocked, lastUpload>>
genVars   == <<variationsTbl, edgeEnv, edge, extStarted, genLog, overlapped,
               readFailed, manualSaves>>
runVars   == <<run, sendLog>>
pureVars  == <<pure>>
stopVars  == <<stopOption, inbound>>
blockVars == <<memBlockedNumbers, dbBlockedNumbers, blockCall>>
serverVars == <<blockVars, listeners, stopEvent, run2>>

\* no blocklist call has been made
NoBlockCall == [op |-> "none"]

\* no button-clicked event has been handled
NoStopEvent == [phone |-> <<>>, buttonId |-> "", attempts |-> 0,
                confirmations |-> 0]

\* no second send-bulk request
Run2Idle == [pc |-> "idle", campaignId |-> "", contacts |-> <<>>, i |-> 0,
             delivered |-> <<>>]

\* The server process after registerRoutes: empty blocklists, the listeners
\* set up once (routes.ts:181), no request in progress
ServerStarted ==
    /\ memBlockedNumbers = <<>>
    /\ dbBlockedNumbers = <<>>
    /\ blockCall = NoBlockCall
    /\ listeners = 1
    /\ stopEvent = NoStopEvent
    /\ run2 = Run2Idle

\* no messages.upsert event has been handled
NoInbound == [messages |-> <<>>]

\* ------------------------------------------------------------------------
\* Bounds of the model
\* ------------------------------------------------------------------------
MaxAttemptsArg == 4   \* largest maxAttempts option passed to withRetry
MaxRowsIn == 3        \* contact rows given to uploadContacts, all calls together
MaxContacts == 2      \* longest contact list of a dispatch run
MaxTextLen == 2       \* tokens of a message text given to personalization
MaxGens == 3          \* variation requests of the other clients: posts to the
                      \* edge function and manual saves together
MaxBatch == 2         \* messages of one messages.upsert event
MaxHistory == 21      \* variations a campaign holds before the requests
OtherRunCalls == 2    \* generateVariation calls of the other campaign's run
MaxConnects == 2      \* POST /api/whatsapp/connect requests

\* ------------------------------------------------------------------------
\* Strings as sequences of one-character strings
\* ------------------------------------------------------------------------
Min(a, b) == IF a <= b THEN a ELSE b

RECURSIVE Pow(_, _)
Pow(b, n) == IF n = 0 THEN 1 ELSE b * Pow(b, n - 1)

Digits == {"0", "1", "2", "3", "4", "5", "6", "7", "8", "9"}

\* String.prototype.toLowerCase on the letters the model uses
toLowerCase(s) ==
    [i \in DOMAIN s |->
        CASE s[i] = "T" -> "t" [] s[i] = "C" -> "c" [] s[i] = "N" -> "n"
          [] s[i] = "O" -> "o" [] s[i] = "E" -> "e" [] s[i] = "I" -> "i"
          [] s[i] = "M" -> "m" [] s[i] = "U" -> "u" [] s[i] = "K" -> "k"
          [] s[i] = "R" -> "r" [] s[i] = "W" -> "w"
          [] OTHER -> s[i]]

\* String.prototype.toUpperCase on the letters the model uses
toUpperCase(s) ==
    [i \in DOMAIN s |->
        CASE s[i] = "s" -> "S" [] s[i] = "t" -> "T" [] s[i] = "o" -> "O"
          [] s[i] = "p" -> "P" [] s[i] = "h" -> "H" [] s[i] = "i" -> "I"
          [] OTHER -> s[i]]

\* String.prototype.trim on a sequence of characters
RECURSIVE trimStart(_)
trimStart(s) == IF s # <<>> /\ Head(s) = " " THEN trimStart(Tail(s)) ELSE s

RECURSIVE trimEnd(_)
trimEnd(s) ==
    IF s # <<>> /\ s[Len(s)] = " " THEN trimEnd(SubSeq(s, 1, Len(s) - 1)) ELSE s

\* String.prototype.includes
includes(s, sub) ==
    \E i \in 1..(Len(s) - Len(sub) + 1) : SubSeq(s, i, i + Len(sub) - 1) = sub

\* ------------------------------------------------------------------------
\* dbRetry.ts
\* ------------------------------------------------------------------------
RETRYABLE_ERROR_CODES ==
    {"ETIMEDOUT", "ECONNREFUSED", "ENOTFOUND", "EHOSTUNREACH", "EAI_AGAIN",
     "ECONNRESET", "57P01", "57P03", "08006", "08003", "08000"}

NoCode == "undefined"

\* Errors an operation may throw: [isNull, code, errno, message]
NullError == [isNull |-> TRUE, code |-> NoCode, errno |-> NoCode, message |-> <<>>]
TypeError ==
    [isNull |-> FALSE, code |-> NoCode, errno |-> NoCode,
     message |-> <<"n", "u", "l", "l">>]
MkError(c, n, m) == [isNull |-> FALSE, code |-> c, errno |-> n, message |-> m]

ErrTimedOutCode == MkError("ETIMEDOUT", NoCode, <<"f", "a", "i", "l">>)
ErrResetErrno   == MkError(NoCode, "ECONNRESET", <<"f", "a", "i", "l">>)
ErrTimeoutMsg   == MkError(NoCode, NoCode, <<"T", "i", "m", "e", "o", "u", "t">>)
ErrNetworkMsg   == MkError(NoCode, NoCode, <<"n", "e", "t", "w", "o", "r", "k">>)
ErrUnique       == MkError("23505", NoCode, <<"d", "u", "p">>)
ErrPlain        == MkError(NoCode, NoCode, <<"f", "a", "i", "l">>)
ErrConnectionMsg ==
    MkError(NoCode, NoCode,
            <<"n", "o", " ", "C", "o", "n", "n", "e", "c", "t", "i", "o", "n">>)
\* a code outside the list beside an errno of the list
ErrCodeAndErrno == MkError("23505", "ECONNRESET", <<"d", "u", "p">>)
\* `throw lastError` when the loop body never ran: lastError is undefined
UndefinedError ==
    [isNull |-> TRUE, code |-> NoCode, errno |-> NoCode, message |-> <<"u">>]

Errors == {NullError, ErrTimedOutCode, ErrResetErrno, ErrTimeoutMsg,
           ErrNetworkMsg, ErrConnectionMsg, ErrUnique, ErrCodeAndErrno, ErrPlain}

\* The message is searched as it is, without lower-casing
isRetryableError_CaseSensitive(error) ==
    IF error.isNull THEN FALSE
    ELSE LET errorCode == IF error.code # NoCode THEN error.code ELSE error.errno
         IN  \/ errorCode \in RETRYABLE_ERROR_CODES
             \/ includes(error.message, <<"t", "i", "m", "e", "o", "u", "t">>)
             \/ includes(error.message,
                         <<"c", "o", "n", "n", "e", "c", "t", "i", "o", "n">>)
             \/ includes(error.message, <<"n", "e", "t", "w", "o", "r", "k">>)

isRetryableError(error) ==
    IF error.isNull THEN FALSE
    ELSE LET errorCode == IF error.code # NoCode THEN error.code ELSE error.errno
             errorMessage == toLowerCase(error.message)
         IN  \/ errorCode \in RETRYABLE_ERROR_CODES
             \/ includes(errorMessage, <<"t", "i", "m", "e", "o", "u", "t">>)
             \/ includes(errorMessage,
                         <<"c", "o", "n", "n", "e", "c", "t", "i", "o", "n">>)
             \/ includes(errorMessage, <<"n", "e", "t", "w", "o", "r", "k">>)

DefaultMaxAttempts == 3
DefaultInitialDelay == 100
DefaultMaxDelay == 5000
DefaultBackoffMultiplier == 2

\* An option is a set: {} when the caller left it out, {v} when given
Opt(o, default) == IF o = {} THEN default ELSE CHOOSE v \in o : TRUE

RetryOptions ==
    [maxAttempts : {{}} \cup {{n} : n \in 0..MaxAttemptsArg},
     initialDelay : {{}, {50}, {6000}},
     maxDelay : {{}, {200}},
     backoffMultiplier : {{}, {1}, {3}}]

RetryIdle ==
    [pc |-> "idle", maxAttempts |-> 0, initialDelay |-> 0, maxDelay |-> 0,
     mult |-> 0, delay |-> 0,
     attempt |-> 0, invocations |-> 0, outcomes |-> <<>>, slept |-> <<>>,
     returned |-> "", lastError |-> NullError, thrown |-> NullError]

\* The catch block retries every error but the one of the final attempt
RetryOpFails_RetriesFatal(error) ==
    /\ rt.pc = "call"
    /\ rt' = [rt EXCEPT
                !.pc = IF rt.attempt = rt.maxAttempts THEN "thrown" ELSE "sleep",
                !.invocations = @ + 1,
                !.outcomes =
                   Append(@, IF isRetryableError(error)
                             THEN "retryable" ELSE "fatal"),
                !.lastError = error,
                !.thrown = IF error.isNull THEN TypeError ELSE error]
    /\ UNCHANGED <<storeVars, genVars, runVars, pureVars, stopVars, serverVars>>

\* withRetry(operation, options): destructure the options, enter the loop
RetryCall(options) ==
    /\ rt.pc = "idle"
    /\ rt' = [RetryIdle EXCEPT
                \* for (attempt = 1; attempt <= maxAttempts; ...)
                !.pc = IF 1 <= Opt(options.maxAttempts, DefaultMaxAttempts)
                       THEN "call" ELSE "thrown",
                \* let lastError: any
                !.lastError = UndefinedError,
                !.thrown = UndefinedError,
                !.maxAttempts = Opt(options.maxAttempts, DefaultMaxAttempts),
                !.initialDelay = Opt(options.initialDelay, DefaultInitialDelay),
                !.maxDelay = Opt(options.maxDelay, DefaultMaxDelay),
                !.mult = Opt(options.backoffMultiplier, DefaultBackoffMultiplier),
                !.delay = Opt(options.initialDelay, DefaultInitialDelay),
                !.attempt = 1]
    /\ UNCHANGED <<storeVars, genVars, runVars, pureVars, stopVars, serverVars>>

\* return await operation()  -- the operation resolves
RetryOpSucceeds ==
    /\ rt.pc = "call"
    /\ rt' = [rt EXCEPT !.pc = "returned",
                        !.invocations = @ + 1,
                        !.outcomes = Append(@, "ok"),
                        !.thrown = NullError,
                        !.returned = "value"]
    /\ UNCHANGED <<storeVars, genVars, runVars, pureVars, stopVars, serverVars>>

\* return await operation()  -- the operation rejects with error
RetryOpFails(error) ==
    /\ rt.pc = "call"
    /\ IF rt.attempt = rt.maxAttempts \/ ~isRetryableError(error)
       THEN rt' = [rt EXCEPT
                     !.pc = "thrown",
                     !.invocations = @ + 1,
                     !.outcomes =
                        Append(@, IF isRetryableError(error)
                                  THEN "retryable" ELSE "fatal"),
                     !.lastError = error,
                     \* console.error reads error.code: a null error raises
                     \* a TypeError in the catch block
                     !.thrown = IF error.isNull THEN TypeError ELSE error]
       ELSE rt' = [rt EXCEPT
                     !.pc = "sleep",
                     !.invocations = @ + 1,
                     !.lastError = error,
                     !.outcomes = Append(@, "retryable")]
    /\ UNCHANGED <<storeVars, genVars, runVars, pureVars, stopVars, serverVars>>

\* await sleep(delay); delay = Math.min(delay * backoffMultiplier, maxDelay)
RetrySleep ==
    /\ rt.pc = "sleep"
    /\ rt' = [rt EXCEPT !.pc = "call",
                        !.slept = Append(@, rt.delay),
                        !.delay = Min(rt.delay * rt.mult, rt.maxDelay),
                        !.attempt = @ + 1]
    /\ UNCHANGED <<storeVars, genVars, runVars, pureVars, stopVars, serverVars>>

\* the caller takes the result; the next withRetry call may begin
RetryDone ==
    /\ rt.pc \in {"returned", "thrown"}
    /\ rt' = RetryIdle
    /\ UNCHANGED <<storeVars, genVars, runVars, pureVars, stopVars, serverVars>>

NextRetry ==
    \/ \E options \in RetryOptions : RetryCall(options)
    \/ RetryOpSucceeds
    \/ \E error \in Errors : RetryOpFails(error)
    \/ RetrySleep
    \/ RetryDone

\* ------------------------------------------------------------------------
\* Campaign and recipient store (CampaignService, schema.ts)
\* ------------------------------------------------------------------------
CampaignIds == {"c1", "c2"}

\* contact.phone.replace(/\D/g, ''): the digits of the phone, in order
cleanPhone(phone) == SelectSeq(phone, LAMBDA ch : ch \in Digits)

\* Message text: a sequence of tokens, <<"lit", word>> or <<"ph", key>>
\* (the placeholder {{key}})
Lit(w) == <<"lit", w>>
Ph(k) == <<"ph", k>>

\* Rows of an uploaded sheet: name, phone, and the other columns in order
ContactRows ==
    {[name |-> "A", phone |-> <<"9", "1">>, extra |-> <<>>],
     [name |-> "B", phone |-> <<"+", "9", "1">>, extra |-> <<>>],
     [name |-> "C", phone |-> <<"9", "2">>,
      extra |-> << <<"city", Lit("Pune")>> >>]}

\* the number that asks to be blocked or unblocked
StopPhones == {<<"+", "9", "1">>}

SeqsUpTo(S, n) == UNION {[1..k -> S] : k \in 0..n}

\* createCampaign inputs
Templates == {<<Lit("Hi"), Ph("name"), Ph("date")>>}
FixedParamSets == {<<>>, << <<"date", Lit("Nov20")>> >>}
ButtonSets == {<<>>, <<"Visit">>}

\* db.insert(campaigns).values({...}).returning(): id is a fresh uuid.
\* asked: the includeStopButton of the request that led to the call (history;
\* createCampaign has no parameter for it and stores nothing of it)
createCampaignCall(id, originalMessage, fixedParams, buttons, asked) ==
    /\ id \in CampaignIds \ DOMAIN campaignsTbl
    /\ campaignsTbl' =
          [c \in DOMAIN campaignsTbl \cup {id} |->
              IF c = id
              THEN [originalMessage |-> originalMessage,
                    fixedParams |-> fixedParams,
                    buttons |-> buttons,
                    totalContacts |-> 0]
              ELSE campaignsTbl[c]]
    /\ UNCHANGED <<recipientsTbl, blocked, lastUpload>>
    /\ UNCHANGED <<retryVars, pureVars, inbound, serverVars, genVars, runVars>>
    /\ stopOption' = IF asked THEN stopOption \cup {id} ELSE stopOption

createCampaign(id, originalMessage, fixedParams, buttons) ==
    createCampaignCall(id, originalMessage, fixedParams, buttons, FALSE)

\* POST /api/campaigns: createCampaign(name, originalMessage, fixedParams,
\* buttons, includeStopButton), whose fifth argument has no parameter
postCampaigns(id, originalMessage, fixedParams, buttons, includeStopButton) ==
    createCampaignCall(id, originalMessage, fixedParams, buttons,
                       includeStopButton)

\* The dedup loop keeps a row unless the same raw phone text was seen
RECURSIVE uniqueContactsFrom_RawPhone(_, _, _)
uniqueContactsFrom_RawPhone(contacts, i, seenPhones) ==
    IF i > Len(contacts) THEN <<>>
    ELSE IF contacts[i].phone \notin seenPhones
         THEN <<contacts[i]>> \o
              uniqueContactsFrom_RawPhone(contacts, i + 1,
                                          seenPhones \cup {contacts[i].phone})
         ELSE uniqueContactsFrom_RawPhone(contacts, i + 1, seenPhones)

\* the for-loop of uploadContacts over contacts[i..], with the phones seen
RECURSIVE uniqueContactsFrom(_, _, _)
uniqueContactsFrom(contacts, i, seenPhones) ==
    IF i > Len(contacts) THEN <<>>
    ELSE IF cleanPhone(contacts[i].phone) \notin seenPhones
         THEN <<contacts[i]>> \o
              uniqueContactsFrom(contacts, i + 1,
                                 seenPhones \cup {cleanPhone(contacts[i].phone)})
         ELSE uniqueContactsFrom(contacts, i + 1, seenPhones)

\* error_reason of a row that never failed
NullReason == [prefix |-> "", detail |-> "null"]

RecipientRow(campaignId, contact) ==
    [campaignId |-> campaignId, name |-> contact.name, phone |-> contact.phone,
     extra |-> contact.extra, status |-> "pending", errorReason |-> NullReason]

NoUpload ==
    [submitted |-> 0, campaignId |-> "", contacts |-> <<>>, before |-> 0,
     inserted |-> FALSE, success |-> FALSE, data |-> <<>>, totalBefore |-> 0,
     partial |-> {}]

\* campaigns.total_contacts of the campaign, 0 when there is no such campaign
totalContactsOf(campaignId) ==
    IF campaignId \in DOMAIN campaignsTbl
    THEN campaignsTbl[campaignId].totalContacts ELSE 0

\* uploadContacts(campaignId, contacts); dbOutcome is what the store does:
\* "ok", "insertFails" (the insert rejects), "updateFails" (the update of
\* campaigns.totalContacts rejects after the rows were inserted)
\* data: the rows of the request that led to the call (history)
uploadContactsCall(campaignId, contacts, dbOutcome, data) ==
    LET uniqueContacts == uniqueContactsFrom(contacts, 1, {})
        insertedContacts ==
            [i \in 1..Len(uniqueContacts) |->
                RecipientRow(campaignId, uniqueContacts[i])]
        \* drizzle rejects values([]) before any statement is sent
        inserted == /\ campaignId \in DOMAIN campaignsTbl
                    /\ uniqueContacts # <<>>
                    /\ dbOutcome # "insertFails"
        updated == inserted /\ dbOutcome = "ok"
    IN  /\ lastUpload.submitted + Len(data) <= MaxRowsIn
        /\ recipientsTbl' = IF inserted THEN recipientsTbl \o insertedContacts
                            ELSE recipientsTbl
        /\ campaignsTbl' =
              IF updated
              THEN [campaignsTbl EXCEPT
                      ![campaignId].totalContacts = Len(insertedContacts)]
              ELSE campaignsTbl
        /\ lastUpload' =
              [submitted |-> lastUpload.submitted + Len(data),
               campaignId |-> campaignId,
               contacts |-> contacts, before |-> Len(recipientsTbl),
               inserted |-> inserted, success |-> updated,
               data |-> data, totalBefore |-> totalContactsOf(campaignId),
               \* campaigns with rows of a call that rejected before the
               \* update of the total
               partial |-> IF inserted /\ ~updated
                           THEN lastUpload.partial \cup {campaignId}
                           ELSE lastUpload.partial]
        /\ UNCHANGED blocked
        /\ UNCHANGED <<retryVars, pureVars, stopVars, serverVars, genVars, runVars>>

uploadContacts(campaignId, contacts, dbOutcome) ==
    uploadContactsCall(campaignId, contacts, dbOutcome, contacts)

\* Rows of a parsed sheet (XLSX.utils.sheet_to_json): a cell that is absent
\* or empty is "" for name and <<>> for phone
SheetRows ==
    {[name |-> "A", phone |-> <<"9", "1">>, extra |-> <<>>],
     [name |-> "", phone |-> <<"9", "2">>, extra |-> <<>>],
     [name |-> "D", phone |-> <<>>, extra |-> <<>>]}

\* !row.name || !row.phone
lacksNameOrPhone(row) == row.name = "" \/ row.phone = <<>>

\* The route stores the rows that have a name and a phone and drops the others
uploadRoute_SkipsInvalidRows(campaignId, data, dbOutcome) ==
    uploadContactsCall(campaignId,
                       SelectSeq(data, LAMBDA row : ~lacksNameOrPhone(row)),
                       dbOutcome, data)

\* POST /api/campaigns/:campaignId/contacts/upload with the sheet's rows:
\* data.map throws on the first row without name or phone, before
\* uploadContacts is called, and the route answers 400
uploadRoute(campaignId, data, dbOutcome) ==
    IF \E k \in DOMAIN data : lacksNameOrPhone(data[k])
    THEN /\ lastUpload.submitted + Len(data) <= MaxRowsIn
         /\ lastUpload' =
               [submitted |-> lastUpload.submitted + Len(data),
                campaignId |-> campaignId,
                contacts |-> <<>>, before |-> Len(recipientsTbl),
                inserted |-> FALSE, success |-> FALSE,
                data |-> data, totalBefore |-> totalContactsOf(campaignId),
                partial |-> lastUpload.partial]
         /\ UNCHANGED <<campaignsTbl, recipientsTbl, blocked>>
         /\ UNCHANGED <<retryVars, pureVars, stopVars, serverVars, genVars, runVars>>
    ELSE uploadContactsCall(campaignId, data, dbOutcome, data)

\* getContacts(campaignId): the campaign's rows in storage order
getContacts(campaignId) ==
    SelectSeq(recipientsTbl, LAMBDA r : r.campaignId = campaignId)

\* storage.addToBlocklist(phoneNumber): insert ... onConflictDoNothing
addToBlocklist(phoneNumber) ==
    /\ blocked' = blocked \cup {cleanPhone(phoneNumber)}
    /\ UNCHANGED <<campaignsTbl, recipientsTbl, lastUpload>>
    /\ UNCHANGED <<retryVars, pureVars, stopVars, serverVars, genVars, runVars>>

\* storage.removeFromBlocklist(phoneNumber)
removeFromBlocklist(phoneNumber) ==
    /\ blocked' = blocked \ {cleanPhone(phoneNumber)}
    /\ UNCHANGED <<campaignsTbl, recipientsTbl, lastUpload>>
    /\ UNCHANGED <<retryVars, pureVars, stopVars, serverVars, genVars, runVars>>

\* storage.isNumberBlocked(phoneNumber)
isNumberBlocked(phoneNumber) == cleanPhone(phoneNumber) \in blocked

\* ------------------------------------------------------------------------
\* Incoming messages: the messages.upsert handler of WhatsAppService and the
\* button-clicked listener of routes.ts
\* ------------------------------------------------------------------------
\* Messages of an event: kind "none" has no msg.message, "button" is an
\* interactiveResponseMessage whose paramsJson holds buttonId, "text" is a
\* conversation text; phone is remoteJid without '@s.whatsapp.net'
InboundMessage(phone, fromMe, kind, text, buttonId) ==
    [phone |-> phone, fromMe |-> fromMe, kind |-> kind, text |-> text,
     buttonId |-> buttonId]

InboundPhones == {<<"9", "1">>, <<"9", "2">>}

InboundTexts ==
    {<<"S", "T", "O", "P">>, <<" ", "s", "t", "o", "p", " ">>, <<"h", "i">>}

InboundMessages ==
    {InboundMessage(p, FALSE, "text", t, "") :
        p \in InboundPhones, t \in InboundTexts}
    \cup {InboundMessage(p, FALSE, "button", <<>>, b) :
        p \in InboundPhones, b \in {"STOP_MESSAGES", "visit"}}
    \cup {InboundMessage(<<"9", "1">>, TRUE, "text", <<"S", "T", "O", "P">>, ""),
          InboundMessage(<<"9", "1">>, FALSE, "none", <<>>, "")}

\* the buttonId of the button-clicked event the handler emits for msg, ""
\* when it emits none
emittedButtonId(msg) ==
    IF msg.kind = "none" \/ msg.fromMe THEN ""
    ELSE IF msg.kind = "button" THEN msg.buttonId
    ELSE IF msg.text # <<>>
            /\ toUpperCase(trimEnd(trimStart(msg.text))) = <<"S", "T", "O", "P">>
    THEN "STOP_MESSAGES"
    ELSE ""

\* socket.ev.on('messages.upsert') with the button-clicked listener it
\* triggers: the handler looks at messages[0] only; for STOP_MESSAGES the
\* listener awaits storage.addToBlocklist (dbOk: the insert returns) and then
\* whatsAppService.sendTextMessage with the confirmation (isConnected: it
\* does not throw 'WhatsApp not connected'); its catch logs either error
messagesUpsert(messages, dbOk, isConnected) ==
    LET msg == messages[1]
        stop == emittedButtonId(msg) = "STOP_MESSAGES"
    IN  /\ blocked' = IF stop /\ dbOk THEN blocked \cup {cleanPhone(msg.phone)}
                      ELSE blocked
        /\ inbound' =
              [messages |-> messages,
               insertFailed |-> IF stop /\ ~dbOk THEN {msg.phone} ELSE {},
               inserted |-> IF stop /\ dbOk THEN {msg.phone} ELSE {},
               confirmed |-> IF stop /\ dbOk /\ isConnected THEN {msg.phone}
                             ELSE {}]
        /\ UNCHANGED <<campaignsTbl, recipientsTbl, lastUpload, stopOption>>
        /\ UNCHANGED <<retryVars, pureVars, serverVars, genVars, runVars>>

\* POST /api/whatsapp/connect: the route calls setupWhatsAppEventListeners
\* before initialize, and the function registers its listeners with
\* whatsAppService.on(...) without looking at the ones already registered
postWhatsappConnect ==
    /\ listeners < 1 + MaxConnects
    /\ listeners' = listeners + 1
    /\ UNCHANGED <<blockVars, stopEvent, run2>>
    /\ UNCHANGED <<retryVars, storeVars, genVars, runVars, pureVars, stopVars>>

\* emit('button-clicked') for msg: every registered listener runs; for
\* STOP_MESSAGES each awaits storage.addToBlocklist and then sends the
\* confirmation. inserted are the listeners whose insert returned, confirmed
\* those among them whose sendTextMessage returned
emitButtonClicked(msg, inserted, confirmed) ==
    LET buttonId == emittedButtonId(msg)
        stop == buttonId = "STOP_MESSAGES"
    IN  /\ buttonId # ""
        /\ confirmed \subseteq inserted
        /\ inserted \subseteq 1..listeners
        /\ ~stop => inserted = {}
        /\ blocked' = IF inserted # {} THEN blocked \cup {cleanPhone(msg.phone)}
                      ELSE blocked
        /\ stopEvent' = [phone |-> msg.phone, buttonId |-> buttonId,
                         attempts |-> IF stop THEN listeners ELSE 0,
                         confirmations |-> Cardinality(confirmed)]
        /\ UNCHANGED <<campaignsTbl, recipientsTbl, lastUpload>>
        /\ UNCHANGED <<blockVars, listeners, run2>>
        /\ UNCHANGED <<retryVars, genVars, runVars, pureVars, stopVars>>

NextListeners ==
    \/ postWhatsappConnect
    \/ \E msg \in InboundMessages,
          inserted \in SUBSET (1..(1 + MaxConnects)),
          confirmed \in SUBSET (1..(1 + MaxConnects)) :
            emitButtonClicked(msg, inserted, confirmed)

NextInbound ==
    \E messages \in SeqsUpTo(InboundMessages, MaxBatch) \ {<<>>},
       dbOk \in BOOLEAN, isConnected \in BOOLEAN :
        messagesUpsert(messages, dbOk, isConnected)

NextIngest ==
    \/ \E id \in CampaignIds, m \in Templates : createCampaign(id, m, <<>>, <<>>)
    \/ \E id \in CampaignIds, contacts \in SeqsUpTo(ContactRows, MaxRowsIn),
          o \in {"ok", "insertFails", "updateFails"} :
          uploadContacts(id, contacts, o)
    \/ \E id \in CampaignIds, data \in SeqsUpTo(SheetRows, MaxRowsIn),
          o \in {"ok", "insertFails", "updateFails"} :
          uploadRoute(id, data, o)

\* ------------------------------------------------------------------------
\* Blocklist methods of the two storages (storage.ts, DatabaseStorage.ts)
\* ------------------------------------------------------------------------
BlockPhones == {<<"9", "1">>, <<"+", "9", "1">>, <<"9", "1", "-">>, <<"9", "2">>}
BlockReasons == {"user_requested", "spam"}

\* what get() and result[0] give when there is no entry
NoEntry == "undefined"

\* MemStorage: this.blockedNumbers.set(cleanedNumber, blocked)
memAddToBlocklist(map, phoneNumber, reason) ==
    LET cleanedNumber == cleanPhone(phoneNumber)
    IN  [q \in DOMAIN map \cup {cleanedNumber} |->
            IF q = cleanedNumber THEN reason ELSE map[q]]

\* MemStorage: this.blockedNumbers.delete(cleanedNumber)
memRemoveFromBlocklist(map, phoneNumber) ==
    [q \in DOMAIN map \ {cleanPhone(phoneNumber)} |-> map[q]]

\* MemStorage: this.blockedNumbers.has(cleanedNumber)
memIsNumberBlocked(map, phoneNumber) == cleanPhone(phoneNumber) \in DOMAIN map

\* MemStorage: the reason of this.blockedNumbers.get(cleanedNumber)
memGetBlockedNumber(map, phoneNumber) ==
    IF cleanPhone(phoneNumber) \in DOMAIN map THEN map[cleanPhone(phoneNumber)]
    ELSE NoEntry

\* The insert pays no attention to a row the number already has
dbAddToBlocklist_NoConflictCheck(rows, phoneNumber, reason) ==
    Append(rows, [phoneNumber |-> cleanPhone(phoneNumber), reason |-> reason])

\* DatabaseStorage: insert ... onConflictDoNothing, phoneNumber being unique
dbAddToBlocklist(rows, phoneNumber, reason) ==
    LET cleanedNumber == cleanPhone(phoneNumber)
    IN  IF \E k \in DOMAIN rows : rows[k].phoneNumber = cleanedNumber
        THEN rows
        ELSE Append(rows, [phoneNumber |-> cleanedNumber, reason |-> reason])

\* DatabaseStorage: delete ... where phoneNumber = cleanedNumber
dbRemoveFromBlocklist(rows, phoneNumber) ==
    SelectSeq(rows, LAMBDA r : r.phoneNumber # cleanPhone(phoneNumber))

\* DatabaseStorage: select ... where phoneNumber = cleanedNumber limit 1
dbSelectBlocked(rows, phoneNumber) ==
    SelectSeq(rows, LAMBDA r : r.phoneNumber = cleanPhone(phoneNumber))

dbIsNumberBlocked(rows, phoneNumber) ==
    Len(dbSelectBlocked(rows, phoneNumber)) > 0

\* DatabaseStorage: the reason of result[0]
dbGetBlockedNumber(rows, phoneNumber) ==
    IF dbSelectBlocked(rows, phoneNumber) # <<>>
    THEN dbSelectBlocked(rows, phoneNumber)[1].reason ELSE NoEntry

\* One call made on both storages; the answers are those of the call
BlockAnswer(op, phoneNumber, reason, mem, db) ==
    [op |-> op, phoneNumber |-> phoneNumber, reason |-> reason,
     wasBlocked |-> memIsNumberBlocked(memBlockedNumbers, phoneNumber),
     mem |-> mem, db |-> db]

\* storage.addToBlocklist(phoneNumber, reason): both return the entry
storageAddToBlocklist(phoneNumber, reason) ==
    /\ memBlockedNumbers' =
          memAddToBlocklist(memBlockedNumbers, phoneNumber, reason)
    /\ dbBlockedNumbers' = dbAddToBlocklist(dbBlockedNumbers, phoneNumber, reason)
    /\ blockCall' =
          BlockAnswer("addToBlocklist", phoneNumber, reason,
                      memGetBlockedNumber(memBlockedNumbers', phoneNumber),
                      \* result[0] || await this.getBlockedNumber(cleanedNumber)
                      dbGetBlockedNumber(dbBlockedNumbers', phoneNumber))
    /\ UNCHANGED <<listeners, stopEvent, run2>>
    /\ UNCHANGED <<retryVars, storeVars, genVars, runVars, pureVars, stopVars>>

\* storage.removeFromBlocklist(phoneNumber)
storageRemoveFromBlocklist(phoneNumber) ==
    /\ memBlockedNumbers' = memRemoveFromBlocklist(memBlockedNumbers, phoneNumber)
    /\ dbBlockedNumbers' = dbRemoveFromBlocklist(dbBlockedNumbers, phoneNumber)
    /\ blockCall' = BlockAnswer("removeFromBlocklist", phoneNumber, "", "", "")
    /\ UNCHANGED <<listeners, stopEvent, run2>>
    /\ UNCHANGED <<retryVars, storeVars, genVars, runVars, pureVars, stopVars>>

\* storage.isNumberBlocked(phoneNumber)
storageIsNumberBlocked(phoneNumber) ==
    /\ blockCall' =
          BlockAnswer("isNumberBlocked", phoneNumber, "",
                      IF memIsNumberBlocked(memBlockedNumbers, phoneNumber)
                      THEN "true" ELSE "false",
                      IF dbIsNumberBlocked(dbBlockedNumbers, phoneNumber)
                      THEN "true" ELSE "false")
    /\ UNCHANGED <<memBlockedNumbers, dbBlockedNumbers, listeners, stopEvent, run2>>
    /\ UNCHANGED <<retryVars, storeVars, genVars, runVars, pureVars, stopVars>>

\* storage.getBlockedNumber(phoneNumber)
storageGetBlockedNumber(phoneNumber) ==
    /\ blockCall' =
          BlockAnswer("getBlockedNumber", phoneNumber, "",
                      memGetBlockedNumber(memBlockedNumbers, phoneNumber),
                      dbGetBlockedNumber(dbBlockedNumbers, phoneNumber))
    /\ UNCHANGED <<memBlockedNumbers, dbBlockedNumbers, listeners, stopEvent, run2>>
    /\ UNCHANGED <<retryVars, storeVars, genVars, runVars, pureVars, stopVars>>

NextBlocklist ==
    \/ \E p \in BlockPhones, r \in BlockReasons : storageAddToBlocklist(p, r)
    \/ \E p \in BlockPhones : storageRemoveFromBlocklist(p)
    \/ \E p \in BlockPhones : storageIsNumberBlocked(p)
    \/ \E p \in BlockPhones : storageGetBlockedNumber(p)

\* ------------------------------------------------------------------------
\* Variations: the edge function bulk-message-generator, the manual save,
\* and VariationService.generateVariation
\* ------------------------------------------------------------------------
MAX_VARIATIONS_FOR_PROMPT == 20

\* variation_number of a row inserted without one (the column is nullable)
NullNumber == 0

Blank == <<Lit(" ")>>

\* String.prototype.trim: leading and trailing whitespace tokens removed
RECURSIVE trimLeft(_)
trimLeft(t) ==
    IF t # <<>> /\ Head(t) = Lit(" ") THEN trimLeft(Tail(t)) ELSE t

RECURSIVE trimRight(_)
trimRight(t) ==
    IF t # <<>> /\ t[Len(t)] = Lit(" ")
    THEN trimRight(SubSeq(t, 1, Len(t) - 1)) ELSE t

trim(t) == trimRight(trimLeft(t))

\* What Gemini may write
GeminiTexts == {<<Lit("Hello"), Ph("name"), Ph("city"), Ph("date")>>}

\* Callers of the edge function: the dispatch run and two other clients
ExtCallers == {"x1", "x2"}
Callers == ExtCallers \cup {"run"}

EdgeIdle ==
    [pc |-> "idle", campaignId |-> "", variationCount |-> 0, prompt |-> <<>>,
     tweakedMessage |-> <<>>, response |-> [status |-> 0]]

\* json: the body parses as JSON (every body the function writes does)
Response(status, success, error, tweaked, number) ==
    [status |-> status, success |-> success, error |-> error,
     tweaked_message |-> tweaked, variation_number |-> number, json |-> TRUE]

\* rows of message_variations of one campaign, ordered by created_at
variationsOf(campaignId) ==
    SelectSeq(variationsTbl, LAMBDA r : r.campaignId = campaignId)

\* previousVariations: the messages that are non-empty after trim
previousVariations(rows) ==
    SelectSeq([i \in DOMAIN rows |-> rows[i].message],
              LAMBDA m : m # <<>> /\ trim(m) # <<>>)

inFlight(c) == edge[c].pc \in {"fetched", "generated"}

\* previousVariations.slice(-MAX_VARIATIONS_FOR_PROMPT) when there are more
promptVariations(prev) ==
    IF Len(prev) > MAX_VARIATIONS_FOR_PROMPT
    THEN SubSeq(prev, Len(prev) - MAX_VARIATIONS_FOR_PROMPT + 1, Len(prev))
    ELSE prev

\* const variationCount = totalVariations + 1
variationCountOf(prev) == Len(prev) + 1

\* serve(req), steps 1-3: parse the body, check the environment, select the
\* campaign's previous variations.  fetchOk: the select returned no error.
EdgeFetch(c, campaignId, message, fetchOk) ==
    /\ edge[c].pc = "idle"
    /\ IF message = <<>> \/ campaignId = ""
       THEN edge' = [edge EXCEPT ![c] =
                [EdgeIdle EXCEPT
                   !.pc = "responded", !.campaignId = campaignId,
                   !.response = Response(400, FALSE, "Missing required fields",
                                         <<>>, NullNumber)]]
            /\ UNCHANGED <<overlapped, readFailed>>
       ELSE IF ~edgeEnv.supabase
       THEN edge' = [edge EXCEPT ![c] =
                [EdgeIdle EXCEPT
                   !.pc = "responded", !.campaignId = campaignId,
                   !.response = Response(500, FALSE,
                                         "Supabase environment not configured",
                                         <<>>, NullNumber)]]
            /\ UNCHANGED <<overlapped, readFailed>>
       ELSE LET rows == IF fetchOk THEN variationsOf(campaignId) ELSE <<>>
                prev == previousVariations(rows)
            IN  /\ edge' = [edge EXCEPT ![c] =
                      [EdgeIdle EXCEPT
                         !.pc = "fetched", !.campaignId = campaignId,
                         !.variationCount = variationCountOf(prev),
                         !.prompt = promptVariations(prev)]]
                /\ overlapped' =
                      IF \E d \in Callers \ {c} :
                            inFlight(d) /\ edge[d].campaignId = campaignId
                      THEN overlapped \cup {campaignId} ELSE overlapped
                /\ readFailed' = IF fetchOk THEN readFailed
                                 ELSE readFailed \cup {campaignId}
    /\ UNCHANGED <<variationsTbl, genLog, manualSaves, edgeEnv>>
    /\ UNCHANGED <<retryVars, pureVars, stopVars, serverVars, storeVars>>

\* What the Gemini call does: fetch rejects, a non-2xx status, a body with
\* no candidate parts, or a body whose parts join to some text
GeminiOutcomes ==
    {[kind |-> k, text |-> <<>>] : k \in {"throws", "notOk", "noParts"}}
    \cup {[kind |-> "text", text |-> t] : t \in GeminiTexts \cup {Blank}}

\* An empty result is stored as a numbered variation
EdgeGemini_StoresEmpty(c, outcome) ==
    /\ edge[c].pc = "fetched"
    /\ LET n == edge[c].variationCount
           respond(r) == [edge EXCEPT ![c].pc = "responded", ![c].response = r]
           tweakedMessage == IF outcome.kind = "text" THEN trim(outcome.text)
                             ELSE <<>>
       IN  edge' =
             IF ~edgeEnv.google
             THEN respond(Response(500, FALSE, "Gemini API not configured",
                                   <<>>, NullNumber))
             ELSE IF outcome.kind = "throws"
             THEN respond(Response(500, FALSE, "Internal server error",
                                   <<>>, NullNumber))
             ELSE IF outcome.kind = "notOk"
             THEN respond(Response(502, FALSE, "Gemini request failed",
                                   <<>>, NullNumber))
             ELSE IF tweakedMessage = <<>>
             THEN respond(Response(500, FALSE, "Generated message is empty",
                                   <<>>, n))
             ELSE [edge EXCEPT ![c].pc = "generated",
                               ![c].tweakedMessage = tweakedMessage]
    /\ variationsTbl' =
          IF edgeEnv.google /\ outcome.kind \in {"noParts", "text"}
             /\ (outcome.kind = "text" => trim(outcome.text) = <<>>)
          THEN Append(variationsTbl,
                      [campaignId |-> edge[c].campaignId, message |-> <<>>,
                       variationNumber |-> edge[c].variationCount])
          ELSE variationsTbl
    /\ UNCHANGED <<genLog, overlapped, readFailed, manualSaves, edgeEnv>>
    /\ UNCHANGED <<retryVars, pureVars, stopVars, serverVars, storeVars>>

\* serve(req), steps 4-5: build the prompt, call Gemini, extract the text
EdgeGemini(c, outcome) ==
    /\ edge[c].pc = "fetched"
    /\ LET n == edge[c].variationCount
           respond(r) == [edge EXCEPT ![c].pc = "responded", ![c].response = r]
           tweakedMessage == IF outcome.kind = "text" THEN trim(outcome.text)
                             ELSE <<>>
       IN  edge' =
             IF ~edgeEnv.google
             THEN respond(Response(500, FALSE, "Gemini API not configured",
                                   <<>>, NullNumber))
             ELSE IF outcome.kind = "throws"
             THEN respond(Response(500, FALSE, "Internal server error",
                                   <<>>, NullNumber))
             ELSE IF outcome.kind = "notOk"
             THEN respond(Response(502, FALSE, "Gemini request failed",
                                   <<>>, NullNumber))
             ELSE IF tweakedMessage = <<>>
             THEN respond(Response(500, FALSE, "Generated message is empty",
                                   <<>>, n))
             ELSE [edge EXCEPT ![c].pc = "generated",
                               ![c].tweakedMessage = tweakedMessage]
    /\ UNCHANGED <<variationsTbl, genLog, overlapped, readFailed, manualSaves,
                   edgeEnv>>
    /\ UNCHANGED <<retryVars, pureVars, stopVars, serverVars, storeVars>>

VariationRow(campaignId, message, number) ==
    [campaignId |-> campaignId, message |-> message, variationNumber |-> number]

\* serve(req), steps 6-7: insert the new variation and respond
EdgeInsert(c, insertOk) ==
    /\ edge[c].pc = "generated"
    /\ LET n == edge[c].variationCount
           m == edge[c].tweakedMessage
       IN  IF insertOk
           THEN /\ variationsTbl' =
                      Append(variationsTbl, VariationRow(edge[c].campaignId, m, n))
                /\ edge' = [edge EXCEPT
                      ![c].pc = "responded",
                      ![c].response = Response(200, TRUE, "", m, n)]
                /\ genLog' = Append(genLog, [campaignId |-> edge[c].campaignId,
                                             number |-> n])
           ELSE /\ edge' = [edge EXCEPT
                      ![c].pc = "responded",
                      ![c].response = Response(500, FALSE, "db_error", m, n)]
                /\ UNCHANGED <<variationsTbl, genLog>>
    /\ UNCHANGED <<overlapped, readFailed, manualSaves, edgeEnv>>
    /\ UNCHANGED <<retryVars, pureVars, stopVars, serverVars, storeVars>>

\* saveMessageVariation(campaignId, variation): a row without a number
saveMessageVariation(campaignId, variation) ==
    /\ extStarted + manualSaves < MaxGens
    /\ campaignId \in DOMAIN campaignsTbl
    /\ variationsTbl' =
          Append(variationsTbl, VariationRow(campaignId, variation, NullNumber))
    /\ manualSaves' = manualSaves + 1
    /\ UNCHANGED <<edge, genLog, overlapped, readFailed, edgeEnv, extStarted>>
    /\ UNCHANGED <<retryVars, pureVars, stopVars, serverVars, storeVars, runVars>>

\* VariationService.generateVariation: the VariationResponse made from the
\* edge function's response; netOk is false when fetch() itself rejects
VariationResponse(success, tweakedMessage, variationNumber, error) ==
    [success |-> success, tweakedMessage |-> tweakedMessage,
     variationNumber |-> variationNumber, error |-> error]

\* the try block of generateVariation: it returns a response or throws an
\* Error; netOk is false when fetch() itself rejects
Threw(message) == [threw |-> TRUE, error |-> [isNull |-> FALSE, message |-> message]]

generateVariationTry(response, netOk) ==
    IF ~netOk
    THEN Threw("fetch failed")
    ELSE IF ~(response.status \in 200..299)
    THEN Threw("Edge function failed")
    ELSE IF ~response.json
    THEN Threw("Unexpected token in JSON")
    ELSE IF ~response.success
    THEN Threw(IF response.error # "" THEN response.error
               ELSE "Unknown error from edge function")
    ELSE IF response.tweaked_message = <<>> \/ trim(response.tweaked_message) = <<>>
    THEN Threw("Generated message is empty")
    ELSE [threw |-> FALSE,
          value |-> VariationResponse(TRUE, response.tweaked_message,
                                      response.variation_number, "")]

\* the catch block reads error.message: that throws when the value caught is
\* null or undefined
generateVariationThrows(response, netOk) ==
    LET t == generateVariationTry(response, netOk)
    IN  t.threw /\ t.error.isNull

\* A failure hands on the number the response carried
generateVariation_KeepsNumber(message, response, netOk) ==
    LET t == generateVariationTry(response, netOk)
    IN  IF t.threw
        THEN VariationResponse(FALSE, message,
                               IF netOk THEN response.variation_number ELSE 0,
                               t.error.message)
        ELSE t.value

generateVariation(message, response, netOk) ==
    LET t == generateVariationTry(response, netOk)
    IN  IF t.threw
        THEN VariationResponse(FALSE, message, 0, t.error.message)
        ELSE t.value

\* a client other than the dispatch run posts to the edge function
ExtRequest(c, campaignId, message, fetchOk) ==
    /\ c \in ExtCallers
    /\ extStarted + manualSaves < MaxGens
    /\ extStarted' = extStarted + 1
    /\ EdgeFetch(c, campaignId, message, fetchOk)
    /\ UNCHANGED runVars

\* ... and receives the response
ExtReturn(c) ==
    /\ c \in ExtCallers
    /\ edge[c].pc = "responded"
    /\ edge' = [edge EXCEPT ![c] = EdgeIdle]
    /\ UNCHANGED <<variationsTbl, genLog, overlapped, readFailed, manualSaves,
                   edgeEnv, extStarted>>
    /\ UNCHANGED <<retryVars, pureVars, stopVars, serverVars, storeVars, runVars>>

ExtGemini(c, outcome) ==
    c \in ExtCallers /\ EdgeGemini(c, outcome) /\ UNCHANGED <<extStarted, runVars>>

ExtInsert(c, insertOk) ==
    c \in ExtCallers /\ EdgeInsert(c, insertOk) /\ UNCHANGED <<extStarted, runVars>>

NextGen ==
    \/ \E c \in ExtCallers, id \in CampaignIds, m \in Templates \cup {<<>>},
          fetchOk \in BOOLEAN : ExtRequest(c, id, m, fetchOk)
    \/ \E c \in ExtCallers, o \in GeminiOutcomes : ExtGemini(c, o)
    \/ \E c \in ExtCallers, insertOk \in BOOLEAN : ExtInsert(c, insertOk)
    \/ \E c \in ExtCallers : ExtReturn(c)
    \/ \E id \in CampaignIds, v \in GeminiTexts \cup {Blank} :
          saveMessageVariation(id, v)

\* ------------------------------------------------------------------------
\* CampaignService.sendBulkMessages
\* ------------------------------------------------------------------------
PrewarmCount == 3        \* prewarmVariations(campaignId, message, params, 3)
PacingBaseSeconds == 60  \* 60 + Math.floor(Math.random() * 31)
PacingSpread == 31
RecoveryDelayMs == 10000 \* this.delay(10000) in the catch block

\* values of Math.random() in [0, 1), in thousandths
RandomDraws == {0, 999}

\* String(contact.phone) as one word of message text
PhoneText(phone) ==
    CASE phone = <<"9", "1">> -> "91"
      [] phone = <<"+", "9", "1">> -> "+91"
      [] phone = <<"9", "2">> -> "92"
      [] OTHER -> "?"

\* The characters of the keys and placeholder names the model uses
Chars(key) ==
    CASE key = "name" -> <<"n", "a", "m", "e">>
      [] key = "phone" -> <<"p", "h", "o", "n", "e">>
      [] key = "city" -> <<"c", "i", "t", "y">>
      [] key = "date" -> <<"d", "a", "t", "e">>
      [] key = "a.b" -> <<"a", ".", "b">>
      [] key = "aXb" -> <<"a", "X", "b">>
      [] key = "x(" -> <<"x", "(">>
      [] OTHER -> <<"?">>

\* new RegExp(source) throws a SyntaxError on unbalanced parentheses
RECURSIVE RegExpValid(_, _)
RegExpValid(source, open) ==
    IF source = <<>> THEN open = 0
    ELSE IF Head(source) = "(" THEN RegExpValid(Tail(source), open + 1)
    ELSE IF Head(source) = ")" THEN open > 0 /\ RegExpValid(Tail(source), open - 1)
    ELSE RegExpValid(Tail(source), open)

\* the pattern built from source matches exactly str: "." matches any
\* character, "(" and ")" delimit a group, every other character is literal
RECURSIVE RegExpMatches(_, _)
RegExpMatches(source, str) ==
    IF source = <<>> THEN str = <<>>
    ELSE IF Head(source) \in {"(", ")"} THEN RegExpMatches(Tail(source), str)
    ELSE /\ str # <<>>
         /\ Head(source) = "." \/ Head(source) = Head(str)
         /\ RegExpMatches(Tail(source), Tail(str))

\* the replacement string of String.prototype.replace: "$&" stands for the
\* matched text and "$$" for one dollar sign
expandReplacement(value, matched) ==
    IF value = Lit("$&") THEN matched
    ELSE IF value = Lit("$$") THEN Lit("$")
    ELSE value

\* text.replace(/\{\{name\}\}/g, value): the pattern is a literal
replaceLiteral(text, key, value) ==
    [k \in DOMAIN text |->
        IF text[k] = Ph(key) THEN expandReplacement(value, text[k]) ELSE text[k]]

\* text.replace(new RegExp(`\{\{${key}\}\}`, 'g'), value): the key is put
\* into the pattern unescaped
replaceAll(text, key, value) ==
    [k \in DOMAIN text |->
        IF text[k][1] = "ph" /\ RegExpMatches(Chars(key), Chars(text[k][2]))
        THEN expandReplacement(value, text[k]) ELSE text[k]]

\* Object.keys(params).forEach(key => text = text.replace({{key}}, value))
RECURSIVE replaceEach(_, _)
replaceEach(text, pairs) ==
    IF pairs = <<>> THEN text
    ELSE replaceEach(replaceAll(text, Head(pairs)[1], Head(pairs)[2]), Tail(pairs))

\* building the RegExp of some key of the extra fields or of the fixed
\* parameters throws
personalizeThrows(contact, fixedParams) ==
    \E k \in DOMAIN (contact.extra \o fixedParams) :
        ~RegExpValid(Chars((contact.extra \o fixedParams)[k][1]), 0)

\* the personalizedMessage of sendBulkMessages
personalize(tweakedMessage, contact, fixedParams) ==
    LET byName == replaceLiteral(tweakedMessage, "name", Lit(contact.name))
        byPhone == replaceLiteral(byName, "phone", Lit(PhoneText(contact.phone)))
        byExtra == replaceEach(byPhone, contact.extra)
    IN  replaceEach(byExtra, fixedParams)

\* no pure function applied yet
NoCall == [op |-> "none"]

\* Inputs of the personalization block
PersonalizeTokens ==
    {Lit("Hi"), Ph("name"), Ph("phone"), Ph("city"), Ph("date"), Ph("a.b"),
     Ph("aXb")}

PersonalizeExtras ==
    {<<>>,
     << <<"city", Lit("Pune")>> >>,
     << <<"name", Lit("Zed")>> >>,
     << <<"date", Lit("Dec1")>> >>,
     << <<"city", Lit("Pune")>>, <<"date", Lit("Dec1")>> >>,
     << <<"a.b", Lit("V")>> >>,
     << <<"x(", Lit("W")>> >>,
     \* a sheet cell whose text is '{{date}}'
     << <<"city", Ph("date")>> >>}

PersonalizeContacts ==
    {[name |-> n, phone |-> <<"9", "1">>, extra |-> e] :
        n \in {"Asha"}, e \in PersonalizeExtras}

PersonalizeFixedParams ==
    {<<>>,
     << <<"date", Lit("Nov20")>> >>,
     << <<"city", Lit("Goa")>> >>,
     << <<"aXb", Lit("F")>> >>}

\* the personalization block applied to one generated text
Personalize(tweakedMessage, recipient, fixedParams) ==
    /\ pure = NoCall
    /\ pure' = [op |-> "personalize",
                tweakedMessage |-> tweakedMessage,
                contact |-> recipient,
                fixedParams |-> fixedParams,
                thrown |-> personalizeThrows(recipient, fixedParams),
                result |-> IF personalizeThrows(recipient, fixedParams) THEN <<>>
                           ELSE personalize(tweakedMessage, recipient, fixedParams)]
    /\ UNCHANGED <<retryVars, storeVars, genVars, runVars, stopVars, serverVars>>

NextPersonalize ==
    \E t \in SeqsUpTo(PersonalizeTokens, MaxTextLen),
       r \in PersonalizeContacts, f \in PersonalizeFixedParams :
        Personalize(t, r, f)

\* What fetch may resolve to, whatever wrote the body
GenerateResponses ==
    {[status |-> st, success |-> ok, error |-> e, tweaked_message |-> t,
      variation_number |-> n, json |-> j] :
        st \in {200, 500}, ok \in BOOLEAN, e \in {"", "db_error"},
        t \in GeminiTexts \cup {<<>>, Blank}, n \in {NullNumber, 4},
        j \in BOOLEAN}

\* one call of variationService.generateVariation
GenerateVariationCall(message, response, netOk) ==
    /\ pure = NoCall
    /\ pure' = [op |-> "generateVariation",
                message |-> message,
                response |-> response,
                netOk |-> netOk,
                thrown |-> generateVariationThrows(response, netOk),
                result |-> generateVariation(message, response, netOk)]
    /\ UNCHANGED <<retryVars, storeVars, genVars, runVars, stopVars, serverVars>>

NextGenerateCall ==
    \E m \in Templates, r \in GenerateResponses, netOk \in BOOLEAN :
        GenerateVariationCall(m, r, netOk)

Reason(prefix, detail) == [prefix |-> prefix, detail |-> detail]

RunIdle ==
    [pc |-> "idle", campaignId |-> "", contacts |-> <<>>, prewarmed |-> 0,
     i |-> 0, sent |-> 0, failed |-> 0, failedList |-> <<>>,
     personalizedMessage |-> <<>>, errorReason |-> Reason("", ""),
     \* history of the run
     attempted |-> 0, suppressedAtStart |-> FALSE, cause |-> "none",
     genOutcome |-> [success |-> FALSE, error |-> ""], written |-> <<>>,
     failedAt |-> <<>>, statusWrite |-> [attempts |-> 0, error |-> NullError],
     cancelRequested |-> FALSE, delivered |-> {}, numbers |-> <<>>,
     successCount |-> 0,
     lastStep |-> "none", lastWait |-> 0, stepFailures |-> 0, thrown |-> ""]

NoSend ==
    [i |-> 0, phone |-> <<>>, text |-> <<>>, buttons |-> <<>>,
     suppressed |-> FALSE, prevStep |-> "none", waited |-> 0,
     fullMessage |-> <<>>]

ContactOf(row) == [name |-> row.name, phone |-> row.phone, extra |-> row.extra]

\* The run starts on an empty contact list
RunStart_EmptyListAllowed(campaignId, contactsInput, dbOk) ==
    /\ run.pc = "idle"
    /\ LET dbContacts == getContacts(campaignId)
           contacts == IF Len(contactsInput) > 0 THEN contactsInput
                       ELSE [k \in DOMAIN dbContacts |-> ContactOf(dbContacts[k])]
       IN  run' =
             IF ~dbOk
             THEN [RunIdle EXCEPT !.pc = "thrown", !.campaignId = campaignId,
                                  !.thrown = "db error"]
             ELSE IF campaignId \notin DOMAIN campaignsTbl
             THEN [RunIdle EXCEPT !.pc = "thrown", !.campaignId = campaignId,
                                  !.thrown = "Campaign not found"]
             ELSE [RunIdle EXCEPT !.pc = "prewarm", !.campaignId = campaignId,
                                  !.contacts = contacts]
    /\ UNCHANGED <<sendLog, retryVars, pureVars, stopVars, serverVars, storeVars, genVars>>

\* sendBulkMessages up to the pre-warm: load the campaign and the contacts.
\* dbOk: the two selects returned.
RunStart(campaignId, contactsInput, dbOk) ==
    /\ run.pc = "idle"
    /\ LET dbContacts == getContacts(campaignId)
           contacts == IF Len(contactsInput) > 0 THEN contactsInput
                       ELSE [k \in DOMAIN dbContacts |-> ContactOf(dbContacts[k])]
       IN  run' =
             IF ~dbOk
             THEN [RunIdle EXCEPT !.pc = "thrown", !.campaignId = campaignId,
                                  !.thrown = "db error"]
             ELSE IF campaignId \notin DOMAIN campaignsTbl
             THEN [RunIdle EXCEPT !.pc = "thrown", !.campaignId = campaignId,
                                  !.thrown = "Campaign not found"]
             ELSE IF Len(contacts) = 0
             THEN [RunIdle EXCEPT !.pc = "thrown", !.campaignId = campaignId,
                                  !.thrown = "No contacts found for this campaign"]
             ELSE [RunIdle EXCEPT !.pc = "prewarm", !.campaignId = campaignId,
                                  !.contacts = contacts]
    /\ UNCHANGED <<sendLog, retryVars, pureVars, stopVars, serverVars, storeVars, genVars>>

campaign == campaignsTbl[run.campaignId]
contact == run.contacts[run.i]

\* after the last pre-warm call the loop starts at the first contact
\* The run is abandoned when a pre-warm call did not succeed
AfterPrewarm_AbortsOnFailure(r) ==
    IF r.successCount < r.prewarmed
    THEN [r EXCEPT !.pc = "thrown", !.thrown = "Pre-warm failed"]
    ELSE IF r.prewarmed = PrewarmCount THEN [r EXCEPT !.pc = "iter", !.i = 1]
    ELSE [r EXCEPT !.pc = "prewarm"]

AfterPrewarm(r) ==
    IF r.prewarmed = PrewarmCount THEN [r EXCEPT !.pc = "iter", !.i = 1]
    ELSE [r EXCEPT !.pc = "prewarm"]

\* generateBatch: the next pre-warm generateVariation call posts to the edge
\* function
RunPrewarmRequest(fetchOk) ==
    /\ run.pc = "prewarm"
    /\ EdgeFetch("run", run.campaignId, campaign.originalMessage, fetchOk)
    /\ run' = [run EXCEPT !.pc = "prewarmGen"]
    /\ UNCHANGED <<sendLog, extStarted>>

\* the pre-warm call returns (success or not); 500 ms before the next one
RunPrewarmReturn ==
    /\ run.pc = "prewarmGen"
    /\ edge["run"].pc = "responded"
    /\ edge' = [edge EXCEPT !["run"] = EdgeIdle]
    /\ run' = AfterPrewarm(
                 [run EXCEPT
                    !.prewarmed = @ + 1,
                    !.successCount =
                       IF generateVariation(campaign.originalMessage,
                                            edge["run"].response, TRUE).success
                       THEN @ + 1 ELSE @])
    /\ UNCHANGED <<variationsTbl, edgeEnv, extStarted, genLog, overlapped,
                   readFailed, manualSaves>>
    /\ UNCHANGED <<sendLog, retryVars, pureVars, stopVars, serverVars, storeVars>>

\* the edge function working on the run's request
RunEdgeGemini(outcome) ==
    EdgeGemini("run", outcome) /\ UNCHANGED <<extStarted, runVars>>

RunEdgeInsert(insertOk) ==
    EdgeInsert("run", insertOk) /\ UNCHANGED <<extStarted, runVars>>

\* the catch block is entered with this error
Caught(r, cause, reason) ==
    [r EXCEPT !.pc = "catch", !.cause = cause, !.errorReason = reason,
              !.stepFailures = IF cause \in {"genFailed", "sendFailed"}
                               THEN @ + 1 ELSE @]

\* top of the loop body for contacts[i]: generateVariation is called
RunIterRequest(fetchOk) ==
    /\ run.pc = "iter"
    /\ EdgeFetch("run", run.campaignId, campaign.originalMessage, fetchOk)
    /\ run' = [run EXCEPT !.pc = "gen",
                          !.attempted = @ + 1,
                          !.suppressedAtStart = isNumberBlocked(contact.phone)]
    /\ UNCHANGED <<sendLog, extStarted>>

\* A failed generation falls back to the text generateVariation returned
\* (the original message), which is personalized and sent
RunGenReturn_SendsFallback(netOk) ==
    /\ run.pc = "gen"
    /\ edge["run"].pc = "responded"
    /\ LET variationResult ==
              generateVariation(campaign.originalMessage, edge["run"].response,
                                netOk)
           returned ==
              [run EXCEPT !.genOutcome = [success |-> variationResult.success,
                                          error |-> variationResult.error]]
       IN  run' =
             IF variationResult.tweakedMessage = <<>>
             THEN Caught(returned, "genFailed",
                         Reason("Variation generation failed: ",
                                IF variationResult.error # ""
                                THEN variationResult.error ELSE "Empty message"))
             ELSE IF personalizeThrows(contact, campaign.fixedParams)
             THEN Caught(returned, "personalizeFailed",
                         Reason("", "Invalid regular expression"))
             ELSE [returned EXCEPT
                     !.pc = "send",
                     !.numbers = Append(@, [i |-> run.i,
                                            variationNumber |->
                                               variationResult.variationNumber]),
                     !.personalizedMessage =
                        personalize(variationResult.tweakedMessage, contact,
                                    campaign.fixedParams)]
    /\ edge' = [edge EXCEPT !["run"] = EdgeIdle]
    /\ UNCHANGED <<variationsTbl, edgeEnv, extStarted, genLog, overlapped,
                   readFailed, manualSaves>>
    /\ UNCHANGED <<sendLog, retryVars, pureVars, stopVars, serverVars, storeVars>>

\* generateVariation returns; on success the message is personalized
RunGenReturn(netOk) ==
    /\ run.pc = "gen"
    /\ edge["run"].pc = "responded"
    /\ LET variationResult ==
              generateVariation(campaign.originalMessage, edge["run"].response,
                                netOk)
           returned ==
              [run EXCEPT !.genOutcome = [success |-> variationResult.success,
                                          error |-> variationResult.error]]
       IN  run' =
             IF ~variationResult.success \/ variationResult.tweakedMessage = <<>>
             THEN Caught(returned, "genFailed",
                         Reason("Variation generation failed: ",
                                IF variationResult.error # ""
                                THEN variationResult.error ELSE "Empty message"))
             ELSE IF personalizeThrows(contact, campaign.fixedParams)
             THEN Caught(returned, "personalizeFailed",
                         Reason("", "Invalid regular expression"))
             ELSE [returned EXCEPT
                     !.pc = "send",
                     !.numbers = Append(@, [i |-> run.i,
                                            variationNumber |->
                                               variationResult.variationNumber]),
                     !.personalizedMessage =
                        personalize(variationResult.tweakedMessage, contact,
                                    campaign.fixedParams)]
    /\ edge' = [edge EXCEPT !["run"] = EdgeIdle]
    /\ UNCHANGED <<variationsTbl, edgeEnv, extStarted, genLog, overlapped,
                   readFailed, manualSaves>>
    /\ UNCHANGED <<sendLog, retryVars, pureVars, stopVars, serverVars, storeVars>>

\* messages of the errors a send may throw; "" is an error without message
SendErrors == {"WhatsApp not connected", ""}

\* What the store does with a status update: carries it out, or rejects with
\* a connection timeout
DbErrors == {ErrTimedOutCode}
DbOutcomes ==
    {[ok |-> TRUE, error |-> NullError]}
    \cup {[ok |-> FALSE, error |-> e] : e \in DbErrors}

\* await db.update(...): the statement is issued once
StatusWrite(db) == [attempts |-> 1, error |-> db.error]

\* const errorReason = error.message || 'Unknown error'
errorReasonOf(reason) ==
    IF reason.prefix = "" /\ reason.detail = "" THEN Reason("", "Unknown error")
    ELSE reason

\* the lines sendMessageWithButtons appends when includeStopButton is set
StopInstructions == <<Lit("To stop receiving messages"), Lit("Reply with: *STOP*")>>

\* WhatsAppService.sendMessageWithButtons: the text it passes on to
\* sendTextMessage, the message followed by one line per button and, when
\* includeStopButton is set, by the stop instructions
sendMessageWithButtons(message, buttons, includeStopButton) ==
    trim(message \o [k \in DOMAIN buttons |-> Lit(buttons[k])]
                 \o (IF includeStopButton THEN StopInstructions ELSE <<>>))

\* whatsAppService.sendMessageWithButtons / sendTextMessage is invoked;
\* outcome is "ok" or the message of the error it throws
RunSend(outcome) ==
    /\ run.pc = "send"
    /\ sendLog' =
          [i |-> run.i, phone |-> contact.phone, text |-> run.personalizedMessage,
           buttons |-> campaign.buttons, suppressed |-> run.suppressedAtStart,
           prevStep |-> run.lastStep, waited |-> run.lastWait,
           \* the fourth parameter is left to its default, false
           fullMessage |->
              IF Len(campaign.buttons) > 0
              THEN sendMessageWithButtons(run.personalizedMessage,
                                          campaign.buttons, FALSE)
              ELSE run.personalizedMessage]
    /\ run' = IF outcome = "ok"
              THEN [run EXCEPT !.pc = "markSent",
                               !.delivered = @ \cup {run.i}]
              ELSE Caught(run, "sendFailed", Reason("", outcome))
    /\ UNCHANGED <<retryVars, pureVars, stopVars, serverVars, storeVars, genVars>>

\* the update matches some row of the campaign
hasRow(campaignId, phone) ==
    \E k \in DOMAIN recipientsTbl :
        recipientsTbl[k].campaignId = campaignId /\ recipientsTbl[k].phone = phone

\* history: the phones whose rows the run has updated, in order
Written(r) ==
    IF hasRow(r.campaignId, r.contacts[r.i].phone)
    THEN Append(r.written, r.contacts[r.i].phone) ELSE r.written

\* The update leaves the campaign out of its where clause
setStatus_ByPhoneOnly(campaignId, phone, status, errorReason) ==
    [k \in DOMAIN recipientsTbl |->
        IF recipientsTbl[k].phone = phone
        THEN [recipientsTbl[k] EXCEPT
                !.status = status,
                !.errorReason = IF status = "failed" THEN errorReason ELSE @]
        ELSE recipientsTbl[k]]

\* update campaign_recipients set ... where campaign_id = ? and phone = ?
setStatus(campaignId, phone, status, errorReason) ==
    [k \in DOMAIN recipientsTbl |->
        IF recipientsTbl[k].campaignId = campaignId /\ recipientsTbl[k].phone = phone
        THEN [recipientsTbl[k] EXCEPT
                !.status = status,
                !.errorReason = IF status = "failed" THEN errorReason ELSE @]
        ELSE recipientsTbl[k]]

\* the loop goes on to the next contact after waiting ms, or ends
NextContact(r, step, ms) ==
    IF r.i < Len(r.contacts)
    THEN [r EXCEPT !.pc = "iter", !.i = @ + 1, !.lastStep = step, !.lastWait = ms]
    ELSE [r EXCEPT !.pc = "done", !.lastStep = step, !.lastWait = 0]

\* (60 + Math.floor(Math.random() * 31)) * 1000, random in thousandths
PacingDelayMs(random) ==
    (PacingBaseSeconds + ((random * PacingSpread) \div 1000)) * 1000

\* after the send: mark the recipient sent, count it, wait 60-90 s
RunMarkSent(db, random) ==
    /\ run.pc = "markSent"
    /\ LET issued == [run EXCEPT !.statusWrite = StatusWrite(db)]
       IN  IF db.ok
           THEN /\ recipientsTbl' = setStatus(run.campaignId, contact.phone,
                                              "sent", NullReason)
                /\ run' = NextContact([issued EXCEPT !.sent = @ + 1,
                                                     !.written = Written(run)],
                                      "sent", PacingDelayMs(random))
           ELSE /\ run' = Caught(issued, "markFailed",
                                 Reason("", "db error"))
                /\ UNCHANGED recipientsTbl
    /\ UNCHANGED <<campaignsTbl, blocked, lastUpload>>
    /\ UNCHANGED <<sendLog, retryVars, pureVars, stopVars, serverVars, genVars>>

\* The catch block waits the pacing delay of a successful send
RunCatch_PacingDelay(db) ==
    /\ run.pc = "catch"
    /\ LET errorReason == errorReasonOf(run.errorReason)
           counted ==
              [run EXCEPT
                 !.failed = @ + 1,
                 !.failedList =
                    Append(@, [phone |-> contact.phone, name |-> contact.name,
                               reason |-> errorReason]),
                 !.failedAt = Append(@, run.i),
                 !.statusWrite = StatusWrite(db)]
       IN  IF db.ok
           THEN /\ recipientsTbl' = setStatus(run.campaignId, contact.phone,
                                              "failed", errorReason)
                /\ run' = NextContact([counted EXCEPT !.written = Written(run)],
                                      run.cause, PacingDelayMs(0))
           ELSE \* the update rejects inside the catch block: nothing catches it
                /\ run' = [counted EXCEPT !.pc = "thrown", !.thrown = "db error"]
                /\ UNCHANGED recipientsTbl
    /\ UNCHANGED <<campaignsTbl, blocked, lastUpload>>
    /\ UNCHANGED <<sendLog, retryVars, pureVars, stopVars, serverVars, genVars>>

\* The catch block counts the failure without listing it
RunCatch_CountsOnly(db) ==
    /\ run.pc = "catch"
    /\ LET errorReason == errorReasonOf(run.errorReason)
           counted ==
              [run EXCEPT
                 !.failed = @ + 1,
                 !.failedAt = Append(@, run.i),
                 !.statusWrite = StatusWrite(db)]
       IN  IF db.ok
           THEN /\ recipientsTbl' = setStatus(run.campaignId, contact.phone,
                                              "failed", errorReason)
                /\ run' = NextContact([counted EXCEPT !.written = Written(run)],
                                      run.cause, RecoveryDelayMs)
           ELSE \* the update rejects inside the catch block: nothing catches it
                /\ run' = [counted EXCEPT !.pc = "thrown", !.thrown = "db error"]
                /\ UNCHANGED recipientsTbl
    /\ UNCHANGED <<campaignsTbl, blocked, lastUpload>>
    /\ UNCHANGED <<sendLog, retryVars, pureVars, stopVars, serverVars, genVars>>

\* the catch block: count the failure, mark the recipient failed, wait 10 s
RunCatch(db) ==
    /\ run.pc = "catch"
    /\ LET errorReason == errorReasonOf(run.errorReason)
           counted ==
              [run EXCEPT
                 !.failed = @ + 1,
                 !.failedList =
                    Append(@, [phone |-> contact.phone, name |-> contact.name,
                               reason |-> errorReason]),
                 !.failedAt = Append(@, run.i),
                 !.statusWrite = StatusWrite(db)]
       IN  IF db.ok
           THEN /\ recipientsTbl' = setStatus(run.campaignId, contact.phone,
                                              "failed", errorReason)
                /\ run' = NextContact([counted EXCEPT !.written = Written(run)],
                                      run.cause, RecoveryDelayMs)
           ELSE \* the update rejects inside the catch block: nothing catches it
                /\ run' = [counted EXCEPT !.pc = "thrown", !.thrown = "db error"]
                /\ UNCHANGED recipientsTbl
    /\ UNCHANGED <<campaignsTbl, blocked, lastUpload>>
    /\ UNCHANGED <<sendLog, retryVars, pureVars, stopVars, serverVars, genVars>>

\* The operator asks for the run to stop.  sendBulkMessages takes no signal
\* and reads none: the request changes nothing the loop looks at.
RequestCancel ==
    /\ run.pc \notin {"idle", "done", "thrown"}
    /\ ~run.cancelRequested
    /\ run' = [run EXCEPT !.cancelRequested = TRUE]
    /\ UNCHANGED <<sendLog, retryVars, pureVars, stopVars, serverVars, storeVars, genVars>>

\* what sendBulkMessages returns
BulkSendResult ==
    [success |-> TRUE, campaign_id |-> run.campaignId,
     total |-> Len(run.contacts), sent |-> run.sent, failed |-> run.failed,
     failed_list |-> run.failedList]

\* contacts a send-bulk request may carry in its body
RunContacts == {c \in ContactRows : c.name \in {"A", "C"}}

\* in a dispatch run the edge function's select of prior variations returns;
\* SpecGen covers the select that fails
RunFetchOutcomes == {TRUE}

NextRun ==
    \/ \E id \in CampaignIds, contactsInput \in SeqsUpTo(RunContacts, MaxContacts),
          dbOk \in BOOLEAN : RunStart(id, contactsInput, dbOk)
    \/ \E fetchOk \in RunFetchOutcomes : RunPrewarmRequest(fetchOk)
    \/ RunPrewarmReturn
    \/ \E o \in GeminiOutcomes : RunEdgeGemini(o)
    \/ \E insertOk \in BOOLEAN : RunEdgeInsert(insertOk)
    \/ \E fetchOk \in RunFetchOutcomes : RunIterRequest(fetchOk)
    \/ \E netOk \in BOOLEAN : RunGenReturn(netOk)
    \/ \E o \in {"ok"} \cup SendErrors : RunSend(o)
    \/ \E db \in DbOutcomes, random \in RandomDraws : RunMarkSent(db, random)
    \/ \E db \in DbOutcomes : RunCatch(db)
    \/ \E p \in StopPhones : addToBlocklist(p)
    \/ \E p \in StopPhones : removeFromBlocklist(p)

\* campaigns are created through the route and then dispatched to the
\* contacts of the request
NextStopOption ==
    \/ \E m \in Templates, f \in FixedParamSets, b \in ButtonSets,
          includeStopButton \in BOOLEAN :
          postCampaigns("c1", m, f, b, includeStopButton)
    \/ NextRun

\* a dispatch run in which the edge function's select of the prior
\* variations may return an error
NextRunSelectFails ==
    \/ NextRun
    \/ \E fetchOk \in BOOLEAN : RunPrewarmRequest(fetchOk)
    \/ \E fetchOk \in BOOLEAN : RunIterRequest(fetchOk)

\* The dispatch run of another campaign, as the two stores see it: its
\* generateVariation calls are requests of caller x1 to the edge function, its
\* status updates are the same update with its own campaign id
OtherRunRequest(campaignId) ==
    /\ campaignId \in DOMAIN campaignsTbl
    /\ run.pc # "idle"
    /\ campaignId # run.campaignId
    /\ extStarted < OtherRunCalls
    /\ ExtRequest("x1", campaignId, campaignsTbl[campaignId].originalMessage, TRUE)

OtherRunStatusWrite(campaignId, phone, status) ==
    /\ run.pc # "idle"
    /\ campaignId # run.campaignId
    /\ hasRow(campaignId, phone)
    /\ recipientsTbl' = setStatus(campaignId, phone, status,
                                  Reason("", "WhatsApp not connected"))
    /\ recipientsTbl' # recipientsTbl
    /\ UNCHANGED <<campaignsTbl, blocked, lastUpload>>
    /\ UNCHANGED <<retryVars, pureVars, stopVars, serverVars, genVars, runVars>>

\* two campaigns dispatched at the same time, every store call returning
NextTwoCampaigns ==
    \/ \E id \in CampaignIds : RunStart(id, <<>>, TRUE)
    \/ RunPrewarmRequest(TRUE)
    \/ RunPrewarmReturn
    \/ \E t \in GeminiTexts : RunEdgeGemini([kind |-> "text", text |-> t])
    \/ RunEdgeInsert(TRUE)
    \/ RunIterRequest(TRUE)
    \/ RunGenReturn(TRUE)
    \/ \E o \in {"ok", "WhatsApp not connected"} : RunSend(o)
    \/ \E db \in {d \in DbOutcomes : d.ok} : RunMarkSent(db, 0)
    \/ \E db \in {d \in DbOutcomes : d.ok} : RunCatch(db)
    \/ \E id \in CampaignIds : OtherRunRequest(id)
    \/ \E t \in GeminiTexts : ExtGemini("x1", [kind |-> "text", text |-> t])
    \/ ExtInsert("x1", TRUE)
    \/ ExtReturn("x1")
    \/ \E id \in CampaignIds, st \in {"sent", "failed"} :
          OtherRunStatusWrite(id, <<"9", "1">>, st)

\* POST /api/campaigns/:campaignId/send-bulk, a second request: the route
\* calls sendBulkMessages whatever else is running; the call loads the
\* campaign and its contacts as RunStart does
postSendBulk2(campaignId) ==
    /\ run2.pc = "idle"
    /\ LET dbContacts == getContacts(campaignId)
           contacts == [k \in DOMAIN dbContacts |-> ContactOf(dbContacts[k])]
       IN  run2' =
             IF campaignId \notin DOMAIN campaignsTbl \/ Len(contacts) = 0
             THEN [Run2Idle EXCEPT !.pc = "thrown", !.campaignId = campaignId]
             ELSE [Run2Idle EXCEPT !.pc = "dispatching",
                                   !.campaignId = campaignId,
                                   !.contacts = contacts, !.i = 1]
    /\ UNCHANGED <<blockVars, listeners, stopEvent>>
    /\ UNCHANGED <<retryVars, storeVars, genVars, runVars, pureVars, stopVars>>

\* one iteration of the second call's loop, up to its transport send:
\* outcome "ok" when the send returns, an error message when an earlier step
\* or the send throws
Run2Send(outcome) ==
    /\ run2.pc = "dispatching"
    /\ run2' = [run2 EXCEPT
                  !.delivered = IF outcome = "ok"
                                THEN Append(@, run2.contacts[run2.i].phone)
                                ELSE @,
                  !.i = IF run2.i < Len(run2.contacts) THEN @ + 1 ELSE @,
                  !.pc = IF run2.i < Len(run2.contacts) THEN @ ELSE "done"]
    /\ UNCHANGED <<blockVars, listeners, stopEvent>>
    /\ UNCHANGED <<retryVars, storeVars, genVars, runVars, pureVars, stopVars>>

\* two send-bulk requests in progress at once, every store call returning
NextTwoRuns ==
    \/ \E id \in CampaignIds : RunStart(id, <<>>, TRUE)
    \/ RunPrewarmRequest(TRUE)
    \/ RunPrewarmReturn
    \/ \E t \in GeminiTexts : RunEdgeGemini([kind |-> "text", text |-> t])
    \/ RunEdgeInsert(TRUE)
    \/ RunIterRequest(TRUE)
    \/ RunGenReturn(TRUE)
    \/ \E o \in {"ok", "WhatsApp not connected"} : RunSend(o)
    \/ \E db \in {d \in DbOutcomes : d.ok} : RunMarkSent(db, 0)
    \/ \E db \in {d \in DbOutcomes : d.ok} : RunCatch(db)
    \/ \E id \in CampaignIds : postSendBulk2(id)
    \/ \E o \in {"ok", "WhatsApp not connected"} : Run2Send(o)

\* a dispatch run that the operator may ask to stop
NextRunCancel == NextRun \/ RequestCancel

\* The steps the backend takes by itself once it can: it posts its requests
\* and handles whatever came back.  The answers of the rewrite service
\* (RunEdgeGemini, RunEdgeInsert) and of the transport (RunSend) are awaited
\* without a timer, so nothing obliges them to arrive.
BackendSteps ==
    \/ \E fetchOk \in RunFetchOutcomes : RunPrewarmRequest(fetchOk)
    \/ RunPrewarmReturn
    \/ \E fetchOk \in RunFetchOutcomes : RunIterRequest(fetchOk)
    \/ \E netOk \in BOOLEAN : RunGenReturn(netOk)
    \/ \E db \in DbOutcomes, random \in RandomDraws : RunMarkSent(db, random)
    \/ \E db \in DbOutcomes : RunCatch(db)

\* ------------------------------------------------------------------------
\* Initial states
\* ------------------------------------------------------------------------
\* empty tables, nothing in progress
Init ==
    /\ rt = RetryIdle
    /\ campaignsTbl = <<>>
    /\ recipientsTbl = <<>>
    /\ variationsTbl = <<>>
    /\ blocked = {}
    /\ edgeEnv = [supabase |-> TRUE, google |-> TRUE]
    /\ edge = [c \in Callers |-> EdgeIdle]
    /\ extStarted = 0
    /\ genLog = <<>>
    /\ overlapped = {}
    /\ readFailed = {}
    /\ manualSaves = 0
    /\ lastUpload = NoUpload
    /\ run = RunIdle
    /\ sendLog = NoSend
    /\ pure = NoCall
    /\ stopOption = {}
    /\ inbound = NoInbound
    /\ ServerStarted

\* The store after createCampaign("c1", ...): one campaign, no recipients
SeededCampaigns ==
    {[c \in {"c1"} |->
        [originalMessage |-> m, fixedParams |-> f, buttons |-> b,
         totalContacts |-> 0]] :
     m \in Templates, f \in FixedParamSets, b \in ButtonSets}

InitGen ==
    /\ rt = RetryIdle
    /\ campaignsTbl \in {t \in SeededCampaigns :
                            t["c1"].fixedParams = <<>> /\ t["c1"].buttons = <<>>}
    /\ recipientsTbl = <<>>
    /\ variationsTbl = <<>>
    /\ blocked = {}
    /\ edgeEnv \in [supabase : BOOLEAN, google : BOOLEAN]
    /\ edge = [c \in Callers |-> EdgeIdle]
    /\ extStarted = 0
    /\ genLog = <<>>
    /\ overlapped = {}
    /\ readFailed = {}
    /\ manualSaves = 0
    /\ lastUpload = NoUpload
    /\ run = RunIdle
    /\ sendLog = NoSend
    /\ pure = NoCall
    /\ stopOption = {}
    /\ inbound = NoInbound
    /\ ServerStarted

\* texts of the variations stored earlier, oldest first
HistoryWords ==
    <<"v1", "v2", "v3", "v4", "v5", "v6", "v7", "v8", "v9", "v10", "v11", "v12",
      "v13", "v14", "v15", "v16", "v17", "v18", "v19", "v20", "v21", "v22",
      "v23", "v24">>

\* A campaign whose earlier requests stored n variations, numbered 1..n
History(n) ==
    [k \in 1..n |-> VariationRow("c1", <<Lit(HistoryWords[k])>>, k)]

InitHistory ==
    /\ rt = RetryIdle
    /\ campaignsTbl \in {t \in SeededCampaigns :
                            t["c1"].fixedParams = <<>> /\ t["c1"].buttons = <<>>}
    /\ recipientsTbl = <<>>
    /\ variationsTbl \in
          {History(n) : n \in (MAX_VARIATIONS_FOR_PROMPT - 1)..MaxHistory}
    /\ blocked = {}
    /\ edgeEnv = [supabase |-> TRUE, google |-> TRUE]
    /\ edge = [c \in Callers |-> EdgeIdle]
    /\ extStarted = 0
    /\ genLog = <<>>
    /\ overlapped = {}
    /\ readFailed = {}
    /\ manualSaves = 0
    /\ lastUpload = NoUpload
    /\ run = RunIdle
    /\ sendLog = NoSend
    /\ pure = NoCall
    /\ stopOption = {}
    /\ inbound = NoInbound
    /\ ServerStarted

\* Two campaigns with the same two contacts, uploaded one after the other
InitTwoCampaigns ==
    /\ rt = RetryIdle
    /\ campaignsTbl =
          [c \in CampaignIds |->
              [originalMessage |-> CHOOSE m \in Templates : TRUE,
               fixedParams |-> <<>>, buttons |-> <<>>, totalContacts |-> 2]]
    /\ recipientsTbl =
          LET u == uniqueContactsFrom(
                      <<CHOOSE c \in ContactRows : c.name = "A",
                        CHOOSE c \in ContactRows : c.name = "C">>, 1, {})
          IN  [k \in DOMAIN u |-> RecipientRow("c1", u[k])]
              \o [k \in DOMAIN u |-> RecipientRow("c2", u[k])]
    /\ variationsTbl = <<>>
    /\ blocked = {}
    /\ edgeEnv = [supabase |-> TRUE, google |-> TRUE]
    /\ edge = [c \in Callers |-> EdgeIdle]
    /\ extStarted = 0
    /\ genLog = <<>>
    /\ overlapped = {}
    /\ readFailed = {}
    /\ manualSaves = 0
    /\ lastUpload = NoUpload
    /\ run = RunIdle
    /\ sendLog = NoSend
    /\ pure = NoCall
    /\ stopOption = {}
    /\ inbound = NoInbound
    /\ ServerStarted

\* batches uploaded before a dispatch run: none, or rows A, B and C
SeedBatches ==
    {<<>>,
     <<CHOOSE c \in ContactRows : c.name = "A",
       CHOOSE c \in ContactRows : c.name = "B",
       CHOOSE c \in ContactRows : c.name = "C">>}

\* The store after createCampaign and one uploadContacts call on "c1"
InitRun ==
    /\ rt = RetryIdle
    /\ campaignsTbl \in {t \in SeededCampaigns :
                            (t["c1"].fixedParams = <<>>) = (t["c1"].buttons = <<>>)}
    /\ recipientsTbl \in
          {[k \in DOMAIN u |-> RecipientRow("c1", u[k])] :
           u \in {uniqueContactsFrom(b, 1, {}) : b \in SeedBatches}}
    /\ variationsTbl = <<>>
    /\ blocked = {}
    /\ edgeEnv = [supabase |-> TRUE, google |-> TRUE]
    /\ edge = [c \in Callers |-> EdgeIdle]
    /\ extStarted = 0
    /\ genLog = <<>>
    /\ overlapped = {}
    /\ readFailed = {}
    /\ manualSaves = 0
    /\ lastUpload = NoUpload
    /\ run = RunIdle
    /\ sendLog = NoSend
    /\ pure = NoCall
    /\ stopOption = {}
    /\ inbound = NoInbound
    /\ ServerStarted

SpecRetry == Init /\ [][NextRetry]_vars
SpecIngest == Init /\ [][NextIngest]_vars
SpecGen == InitGen /\ [][NextGen]_vars
SpecHistory == InitHistory /\ [][NextGen]_vars
SpecPersonalize == Init /\ [][NextPersonalize]_vars
SpecGenerateCall == Init /\ [][NextGenerateCall]_vars
SpecStopOption == Init /\ [][NextStopOption]_vars
SpecInbound == Init /\ [][NextInbound]_vars
SpecListeners == Init /\ [][NextListeners]_vars
SpecBlocklist == Init /\ [][NextBlocklist]_vars
Spec == InitRun /\ [][NextRun]_vars
SpecTwoCampaigns == InitTwoCampaigns /\ [][NextTwoCampaigns]_vars
SpecTwoRuns == InitTwoCampaigns /\ [][NextTwoRuns]_vars
SpecCancel == InitRun /\ [][NextRunCancel]_vars
SpecSelectFails == InitRun /\ [][NextRunSelectFails]_vars
SpecLive == InitRun /\ [][NextRun]_vars /\ WF_vars(BackendSteps)

\* ------------------------------------------------------------------------
\* Properties of withRetry
\* ------------------------------------------------------------------------
Last(s) == s[Len(s)]

\* C7: withRetry invokes the operation until its first success, its first
\* non-retryable error or maxAttempts invocations, whichever comes first:
\* every invocation but the last ended in a retryable error, the call goes
\* on while none of the three has happened, a success after k retryable
\* failures is returned after exactly k+1 invocations, and a first error
\* that is not retryable ends the call after exactly one invocation.
C7_InvokedUntilFirstStop ==
    /\ rt.invocations = Len(rt.outcomes)
    /\ rt.pc # "idle" => rt.invocations <= rt.maxAttempts
    /\ \A i \in 1..(Len(rt.outcomes) - 1) : rt.outcomes[i] = "retryable"
    /\ rt.pc = "call" => /\ rt.invocations = rt.attempt - 1
                         /\ \A i \in 1..Len(rt.outcomes) :
                                rt.outcomes[i] = "retryable"
    /\ rt.pc = "sleep" => /\ rt.invocations = rt.attempt
                          /\ rt.attempt < rt.maxAttempts
                          /\ Last(rt.outcomes) = "retryable"
    /\ rt.pc = "returned" => /\ Last(rt.outcomes) = "ok"
                             /\ rt.returned = "value"
    /\ rt.pc = "thrown" =>
          \/ rt.maxAttempts = 0 /\ rt.invocations = 0
          \/ /\ rt.invocations >= 1
             /\ Last(rt.outcomes) = "fatal"
          \/ /\ rt.invocations = rt.maxAttempts
             /\ Last(rt.outcomes) = "retryable"

\* two timeout-classified failures, then success on the third attempt
C7_Witness ==
    /\ rt.pc = "returned"
    /\ rt.maxAttempts = DefaultMaxAttempts
    /\ rt.outcomes = <<"retryable", "retryable", "ok">>
    /\ rt.invocations = 3

\* C28: the wait before the k-th retry is
\* min(initialDelay * multiplier^(k-1), maxDelay), so the waits never
\* decrease and none exceeds maxDelay, whatever the options are, an
\* initialDelay above maxDelay included.
C28_WaitsGeometricCapped ==
    \A k \in 1..Len(rt.slept) :
        /\ rt.slept[k] = Min(rt.initialDelay * Pow(rt.mult, k - 1), rt.maxDelay)
        /\ rt.slept[k] <= rt.maxDelay
        /\ k > 1 => rt.slept[k - 1] <= rt.slept[k]

\* C29: an operation that throws a non-retryable error, or that throws on
\* attempt maxAttempts, ends the call at once: withRetry throws the error of
\* that last invocation, has slept only between invocations, and has not
\* invoked the operation after it.
C29_LastErrorRethrown ==
    (rt.pc = "thrown" /\ rt.invocations >= 1) =>
        /\ rt.thrown = rt.lastError
        /\ Len(rt.slept) = rt.invocations - 1
        /\ rt.invocations = rt.attempt
        /\ Last(rt.outcomes) # "ok"

\* the two characters are the same letter, whatever their case
SameLetter(a, b) == toLowerCase(<<a>>) = toLowerCase(<<b>>)

\* the message holds the word at some position, letter case aside
Mentions(message, word) ==
    \E p \in 1..Len(message) :
        /\ p + Len(word) - 1 <= Len(message)
        /\ \A j \in 1..Len(word) : SameLetter(message[p + j - 1], word[j])

MentionsTransient(message) ==
    \/ Mentions(message, <<"t", "i", "m", "e", "o", "u", "t">>)
    \/ Mentions(message, <<"c", "o", "n", "n", "e", "c", "t", "i", "o", "n">>)
    \/ Mentions(message, <<"n", "e", "t", "w", "o", "r", "k">>)

\* the invocation that failed last, while its error is the one on record
LastFailure == rt.invocations >= 1 /\ Last(rt.outcomes) # "ok"

\* C30: an error is classified retryable exactly when it is not null and
\* either its code is a listed transient code, or it has no code and its
\* errno is a listed one, or its message mentions timeout, connection or
\* network in any letter case; every other error is non-retryable.
C30_RetryableExactly ==
    LastFailure =>
        (Last(rt.outcomes) = "retryable"
           <=> /\ ~rt.lastError.isNull
               /\ \/ rt.lastError.code \in RETRYABLE_ERROR_CODES
                  \/ /\ rt.lastError.code = NoCode
                     /\ rt.lastError.errno \in RETRYABLE_ERROR_CODES
                  \/ MentionsTransient(rt.lastError.message))

\* a message with a capital letter in the word is retried
C30_Witness ==
    /\ rt.pc = "sleep"
    /\ rt.lastError = ErrConnectionMsg
    /\ Last(rt.outcomes) = "retryable"

\* C30 as stated: a listed errno makes the error retryable whatever its code
C30_CodeOrErrnoListed ==
    LastFailure =>
        (Last(rt.outcomes) = "retryable"
           <=> /\ ~rt.lastError.isNull
               /\ \/ rt.lastError.code \in RETRYABLE_ERROR_CODES
                  \/ rt.lastError.errno \in RETRYABLE_ERROR_CODES
                  \/ MentionsTransient(rt.lastError.message))

\* ------------------------------------------------------------------------
\* Properties of campaigns dispatched together
\* ------------------------------------------------------------------------
\* the request of caller c has loaded the campaign's history
Loads(c) == edge[c].pc = "idle" /\ edge'[c].pc = "fetched"

\* the rows a table holds for one campaign
RowsFor(tbl, b) == SelectSeq(tbl, LAMBDA r : r.campaignId = b)

\* the step is one of the dispatch run or of its request to the edge function
RunActs == run' # run \/ edge'["run"] # edge["run"]

\* the step is one of the other campaign's run
OtherActs == ~RunActs /\ (edge'["x1"] # edge["x1"] \/ recipientsTbl' # recipientsTbl)

C38_OneListenerPerEvent ==
    /\ listeners = 1
    /\ stopEvent.buttonId = "STOP_MESSAGES" =>
          /\ stopEvent.attempts = 1
          /\ stopEvent.confirmations <= 1

\* the call is between its setup and its return
Dispatching(r) == r.pc \notin {"idle", "done", "thrown"}

\* C37: of two send-bulk requests for one campaign at most one is
\* dispatching at any time, and no recipient of the campaign is handed to
\* the transport by both.
C37_OneRunPerCampaign ==
    run.campaignId = run2.campaignId =>
        /\ ~(Dispatching(run) /\ Dispatching(run2))
        /\ \A k \in run.delivered, j \in DOMAIN run2.delivered :
              run.contacts[k].phone # run2.delivered[j]

\* ------------------------------------------------------------------------
\* Properties of the prompt context
\* ------------------------------------------------------------------------
\* C31: a request for a campaign holding more than 20 variations puts the 20
\* most recent ones, oldest first, in the prompt and numbers the new
\* variation 1 + the count of all the variations held.
C31_RecentInPromptAllCounted ==
    [][\A c \in Callers :
          Loads(c) =>
             LET prior == variationsOf(edge'[c].campaignId)
                 total == Len(prior)
             IN  total > MAX_VARIATIONS_FOR_PROMPT =>
                    /\ edge'[c].variationCount = total + 1
                    /\ edge'[c].prompt =
                          [k \in 1..MAX_VARIATIONS_FOR_PROMPT |->
                              prior[total - MAX_VARIATIONS_FOR_PROMPT + k].message]
      ]_vars

\* ------------------------------------------------------------------------
\* Properties of ingestion
\* ------------------------------------------------------------------------
\* the canonical form of a phone: its digits, every other character stripped
RECURSIVE Canonical(_)
Canonical(p) ==
    IF p = <<>> THEN <<>>
    ELSE (IF Head(p) \in Digits THEN <<Head(p)>> ELSE <<>>) \o Canonical(Tail(p))

\* rows of the batch that are the first with their canonical phone
FirstOccurrences(contacts) ==
    {i \in DOMAIN contacts :
        \A j \in 1..(i - 1) :
            Canonical(contacts[j].phone) # Canonical(contacts[i].phone)}

\* the rows the last uploadContacts call appended to campaign_recipients
StoredByLastUpload ==
    SubSeq(recipientsTbl, lastUpload.before + 1, Len(recipientsTbl))

\* C8: an uploadContacts call that inserts stores exactly one recipient per
\* distinct canonical phone of the batch, namely the first row of the batch
\* with that canonical phone, in the batch's order; later rows with a
\* canonical phone already seen are dropped; a call that does not insert
\* stores nothing.
C8_FirstOccurrenceStored ==
    LET contacts == lastUpload.contacts
        kept == FirstOccurrences(contacts)
        Rank(i) == Cardinality({j \in kept : j <= i})
    IN  IF lastUpload.inserted
        THEN /\ Len(StoredByLastUpload) = Cardinality(kept)
             /\ Len(StoredByLastUpload) =
                   Cardinality({Canonical(contacts[i].phone) : i \in DOMAIN contacts})
             /\ \A i \in kept :
                   /\ StoredByLastUpload[Rank(i)].name = contacts[i].name
                   /\ StoredByLastUpload[Rank(i)].phone = contacts[i].phone
                   /\ StoredByLastUpload[Rank(i)].campaignId = lastUpload.campaignId
        ELSE Len(recipientsTbl) = lastUpload.before

\* rows (A, 91), (B, +91), (C, 92): B is dropped, A and C are stored
C8_Witness ==
    /\ lastUpload.inserted
    /\ Len(lastUpload.contacts) = 3
    /\ lastUpload.contacts[1].name = "A"
    /\ lastUpload.contacts[2].name = "B"
    /\ lastUpload.contacts[3].name = "C"
    /\ Len(StoredByLastUpload) = 2
    /\ StoredByLastUpload[1].name = "A"
    /\ StoredByLastUpload[2].name = "C"

\* C9: no two stored recipients of one campaign have the same canonical
\* phone, after any sequence of uploadContacts calls.
C9_PhonesUniquePerCampaign ==
    \A i, j \in DOMAIN recipientsTbl :
        (i < j /\ recipientsTbl[i].campaignId = recipientsTbl[j].campaignId)
            => Canonical(recipientsTbl[i].phone) # Canonical(recipientsTbl[j].phone)

\* ------------------------------------------------------------------------
\* Properties of variation numbering
\* ------------------------------------------------------------------------
\* the variation numbers persisted for a campaign, in creation order
PersistedNumbers(c) ==
    LET rows == SelectSeq(variationsTbl, LAMBDA r : r.campaignId = c)
    IN  [i \in DOMAIN rows |-> rows[i].variationNumber]

\* the variation numbers the edge function returned for a campaign
ReturnedNumbers(c) ==
    LET log == SelectSeq(genLog, LAMBDA e : e.campaignId = c)
    IN  [i \in DOMAIN log |-> log[i].number]

OnlyGenerated(c) ==
    \A i \in DOMAIN variationsTbl :
        variationsTbl[i].campaignId = c
            => variationsTbl[i].variationNumber # NullNumber

\* C2: generate invocations for one campaign that overlap in time never
\* persist two Variation rows with the same variationNumber (every read of
\* the prior variations having succeeded, and no row saved by hand).
C2_OverlapNeverSharesNumber ==
    \A c \in CampaignIds :
        (c \in overlapped /\ c \notin readFailed /\ OnlyGenerated(c))
            => \A i, j \in DOMAIN PersistedNumbers(c) :
                  i # j => PersistedNumbers(c)[i] # PersistedNumbers(c)[j]

\* C10: from a campaign with no variations, N successful generations that
\* do not overlap return and persist the numbers 1, 2, ..., N in that order.
C10_SequentialNumbers ==
    \A c \in CampaignIds :
        (c \notin overlapped /\ OnlyGenerated(c))
            => /\ ReturnedNumbers(c) = [i \in 1..Len(ReturnedNumbers(c)) |-> i]
               /\ PersistedNumbers(c) = ReturnedNumbers(c)

\* C11: after any sequence of generations (successful, failed, or with a
\* failed read of the prior variations) and manual saves, the variation
\* numbers of a campaign's rows are, in creation order, exactly 1..n:
\* each row is numbered one more than the rows that existed before it.
C11_NumbersAreOneToN ==
    \A c \in CampaignIds :
        PersistedNumbers(c) = [i \in 1..Len(PersistedNumbers(c)) |-> i]

\* C34: a campaign whose ingestion calls all succeeded has a total-recipient
\* count equal to the number of recipient rows stored for it.
C34_TotalIsStoredRowCount ==
    \A c \in DOMAIN campaignsTbl :
        c \notin lastUpload.partial
           => campaignsTbl[c].totalContacts = Len(getContacts(c))

\* ------------------------------------------------------------------------
\* Properties of the blocklist
\* ------------------------------------------------------------------------
\* the phones written with the same digits as p
SameDigits(p) == {q \in BlockPhones : Canonical(q) = Canonical(p)}

\* the entries a storage holds for the digits of p
MemEntries(p) == {k \in DOMAIN memBlockedNumbers : k = Canonical(p)}
DbEntries(p) == {k \in DOMAIN dbBlockedNumbers :
                    dbBlockedNumbers[k].phoneNumber = Canonical(p)}

\* C35: the blocklist works on the digits of a phone.  After
\* addToBlocklist(p) every phone with the digits of p is reported blocked,
\* after removeFromBlocklist(p) none is, and a number never has more than
\* one entry however often it is added.
C35_BlocklistByDigits ==
    /\ \A p \in BlockPhones :
          Cardinality(MemEntries(p)) <= 1 /\ Cardinality(DbEntries(p)) <= 1
    /\ blockCall.op = "addToBlocklist" =>
          /\ \A q \in SameDigits(blockCall.phoneNumber) :
                /\ memIsNumberBlocked(memBlockedNumbers, q)
                /\ dbIsNumberBlocked(dbBlockedNumbers, q)
          /\ Cardinality(MemEntries(blockCall.phoneNumber)) = 1
          /\ Cardinality(DbEntries(blockCall.phoneNumber)) = 1
    /\ blockCall.op = "removeFromBlocklist" =>
          \A q \in SameDigits(blockCall.phoneNumber) :
              /\ ~memIsNumberBlocked(memBlockedNumbers, q)
              /\ ~dbIsNumberBlocked(dbBlockedNumbers, q)
    /\ blockCall.op = "isNumberBlocked" =>
          /\ blockCall.mem = "true" <=> MemEntries(blockCall.phoneNumber) # {}
          /\ blockCall.db = "true" <=> DbEntries(blockCall.phoneNumber) # {}

\* a number already blocked as 91 is added again as +91
C35_Witness ==
    /\ blockCall.op = "addToBlocklist"
    /\ blockCall.phoneNumber = <<"+", "9", "1">>
    /\ blockCall.wasBlocked
    /\ Len(dbBlockedNumbers) = 2
    /\ dbBlockedNumbers[1].phoneNumber = <<"9", "1">>

\* C39: the two storages answer every blocklist call alike: the same
\* blocked/unblocked answer and the same reason for every number after
\* every sequence of calls, a second add with another reason included.
C39_StoragesAnswerAlike ==
    /\ blockCall.op # "none" => blockCall.mem = blockCall.db
    /\ \A q \in BlockPhones :
          /\ memIsNumberBlocked(memBlockedNumbers, q)
                = dbIsNumberBlocked(dbBlockedNumbers, q)
          /\ memGetBlockedNumber(memBlockedNumbers, q)
                = dbGetBlockedNumber(dbBlockedNumbers, q)

\* ------------------------------------------------------------------------
\* Properties of personalization
\* ------------------------------------------------------------------------
\* every occurrence of the placeholder {{key}} replaced by value
Substituted(text, key, value) ==
    [k \in DOMAIN text |-> IF text[k] = Ph(key) THEN value ELSE text[k]]

RECURSIVE SubstitutedEach(_, _)
SubstitutedEach(text, pairs) ==
    IF pairs = <<>> THEN text
    ELSE SubstitutedEach(Substituted(text, Head(pairs)[1], Head(pairs)[2]),
                         Tail(pairs))

\* name and phone first, then the extra fields, then the fixed parameters
SubstitutedInOrder(text, recipient, fixedParams) ==
    LET identity == Substituted(Substituted(text, "name", Lit(recipient.name)),
                                "phone", Lit(PhoneText(recipient.phone)))
    IN  SubstitutedEach(SubstitutedEach(identity, recipient.extra), fixedParams)

\* C12: personalization replaces every {{name}} and {{phone}} by the
\* recipient's name and phone, then every {{k}} of each key k of the
\* recipient's extra fields by its value, then every {{k}} of each key k of
\* the fixed parameters by its value, so that a key found in several
\* sources takes the value of the earliest (identity, extra, fixed).
C12_SubstitutionInOrder ==
    pure.op = "personalize"
        => /\ ~pure.thrown
           /\ pure.result = SubstitutedInOrder(pure.tweakedMessage, pure.contact,
                                               pure.fixedParams)

\* the keys the three sources offer for a recipient
SourceKeys(recipient, fixedParams) ==
    {"name", "phone"}
    \cup {recipient.extra[k][1] : k \in DOMAIN recipient.extra}
    \cup {fixedParams[k][1] : k \in DOMAIN fixedParams}

\* C32: a token {{t}} whose t is not exactly 'name', 'phone', a key of the
\* recipient's extra fields or a key of the fixed parameters stands verbatim
\* at its place in the personalized text, whatever characters the keys hold.
C32_UnmatchedTokensVerbatim ==
    pure.op = "personalize" =>
        \A k \in DOMAIN pure.tweakedMessage :
            (/\ pure.tweakedMessage[k][1] = "ph"
             /\ pure.tweakedMessage[k][2]
                   \notin SourceKeys(pure.contact, pure.fixedParams))
               => /\ ~pure.thrown
                  /\ pure.result[k] = pure.tweakedMessage[k]

\* the value of the first pair of the list that has the key
RECURSIVE Lookup(_, _)
Lookup(pairs, key) ==
    IF Head(pairs)[1] = key THEN Head(pairs)[2] ELSE Lookup(Tail(pairs), key)

\* what one simultaneous substitution puts in the place of the token {{t}}
SubstitutionFor(t, recipient, fixedParams) ==
    IF t = "name" THEN Lit(recipient.name)
    ELSE IF t = "phone" THEN Lit(PhoneText(recipient.phone))
    ELSE IF \E k \in DOMAIN recipient.extra : recipient.extra[k][1] = t
    THEN Lookup(recipient.extra, t)
    ELSE IF \E k \in DOMAIN fixedParams : fixedParams[k][1] = t
    THEN Lookup(fixedParams, t)
    ELSE Ph(t)

\* C36: personalization is one simultaneous substitution over the variation
\* text: each token of the text gets the value of its own key, and a value
\* put in stays as it is even when it reads like a token (stated for keys
\* made of letters; C32 covers the others).
C36_OneSimultaneousSubstitution ==
    (/\ pure.op = "personalize"
     /\ SourceKeys(pure.contact, pure.fixedParams) \cap {"a.b", "x("} = {})
       => /\ ~pure.thrown
          /\ \A k \in DOMAIN pure.tweakedMessage :
                pure.result[k] =
                   IF pure.tweakedMessage[k][1] = "ph"
                   THEN SubstitutionFor(pure.tweakedMessage[k][2], pure.contact,
                                        pure.fixedParams)
                   ELSE pure.tweakedMessage[k]

\* ------------------------------------------------------------------------
\* Properties of the dispatch run
\* ------------------------------------------------------------------------
InIteration == run.pc \in {"iter", "gen", "send", "markSent", "catch"}

\* C1: in a dispatch run, a recipient whose canonical phone is in
\* blocked_numbers when its iteration starts is never handed to
\* sendTextMessage or sendMessageWithButtons (it is to be listed in
\* failed_list as suppressed instead): no transport send is made for a
\* recipient that was suppressed at the start of its iteration.
C1_SuppressedNeverSent ==
    sendLog.i > 0 => ~sendLog.suppressed

\* C3: whatever recipients fail in generation or in the send, the run goes
\* through every recipient in list order, counting each failing one failed;
\* with exactly one failing recipient among n it ends with sent = n - 1
\* and failed = 1.
C3_FailuresIsolated ==
    /\ run.attempted <= Len(run.contacts)
    /\ run.pc \in {"gen", "send", "markSent", "catch"} => run.attempted = run.i
    /\ (run.pc \in {"done", "thrown"} /\ run.attempted > 0)
          => run.attempted = Len(run.contacts)
    /\ (run.pc = "done" /\ run.stepFailures = 1)
          => /\ BulkSendResult.sent = BulkSendResult.total - 1
             /\ BulkSendResult.failed = 1

\* C4: once the first recipient iteration has begun, sendBulkMessages
\* returns its result and never throws to its caller.
C4_NeverThrowsOnceStarted ==
    run.pc = "thrown" => run.attempted = 0

\* C5: after a transport send that succeeded for a non-final recipient, the
\* send for the next recipient is invoked only after a pacing delay of
\* 60 s to 90 s; no delay follows the final recipient.
C5_PacedAfterSuccessfulSend ==
    /\ (sendLog.i > 1 /\ sendLog.prevStep \in {"sent", "markFailed"})
          => (60000 <= sendLog.waited /\ sendLog.waited <= 90000)
    /\ run.pc = "done" => run.lastWait = 0

\* C6: after a failed step (generation failure or send exception) of a
\* non-final recipient the loop waits exactly 10 s before the next
\* iteration, never the 60-90 s pacing delay; after a failed final
\* recipient it does not wait.
C6_RecoveryDelayAfterFailure ==
    /\ (InIteration /\ run.i > 1 /\ run.lastStep \in {"genFailed", "sendFailed"})
          => run.lastWait = 10000
    /\ (run.pc = "done" /\ run.lastStep \in {"genFailed", "sendFailed"})
          => run.lastWait = 0

\* the first recipient's generation failed and was counted; the second
\* recipient's iteration is about to begin, 10 s later
C6_Witness ==
    /\ run.pc = "iter"
    /\ run.i = 2
    /\ run.lastStep = "genFailed"
    /\ run.lastWait = 10000
    /\ run.failed = 1

\* the recipient whose failure the catch block handled last
LastFailed == run.contacts[Last(run.failedAt)]

\* the catch block has just handled a failed generation
GenFailureHandled ==
    /\ run.cause = "genFailed"
    /\ run.failedAt # <<>>
    /\ \/ run.pc \in {"iter", "done"} /\ run.lastStep = "genFailed"
       \/ run.pc = "thrown"

C14_TallyAccountsForEveryRecipient ==
    /\ Len(run.failedList) = run.failed
    /\ Len(run.failedAt) = run.failed
    /\ run.pc = "iter" => run.sent + run.failed = run.i - 1
    /\ run.pc = "done"
          => /\ BulkSendResult.total = Len(run.contacts)
             /\ BulkSendResult.sent + BulkSendResult.failed = BulkSendResult.total
             /\ Len(BulkSendResult.failed_list) = BulkSendResult.failed
    /\ \A k \in DOMAIN run.failedList :
          /\ k \in DOMAIN run.failedAt
          /\ k > 1 => run.failedAt[k - 1] < run.failedAt[k]
          /\ run.failedList[k].phone = run.contacts[run.failedAt[k]].phone
          /\ run.failedList[k].name = run.contacts[run.failedAt[k]].name
          /\ run.failedList[k].reason.detail # ""

\* a completed run over two recipients: the first was sent, the send of
\* the second threw an error without a message
C14_Witness ==
    /\ run.pc = "done"
    /\ Len(run.contacts) = 2
    /\ run.sent = 1
    /\ run.failed = 1
    /\ run.failedAt = <<2>>
    /\ run.failedList[1].reason = Reason("", "Unknown error")

\* C15: within one dispatch run the stored status of a recipient is
\* written at most once, also when the contact list of the request repeats
\* a phone: no phone has its rows updated twice by the run.
C15_StatusWrittenOnce ==
    \A i, j \in DOMAIN run.written : i < j => run.written[i] # run.written[j]

\* C16: the loop checks an external cancellation signal at the top of every
\* iteration; once cancellation is signalled no further recipient
\* iteration begins (no generation, send or status write for the untouched
\* recipients, which stay pending).
C16_StopsOnCancellation ==
    [][run.cancelRequested => run'.attempted = run.attempted]_vars

\* C17: when the campaign does not exist or the contact list is empty,
\* sendBulkMessages throws before any pre-warm generation, any transport
\* send and any recipient status write: a run gets past its setup only with
\* an existing campaign and a non-empty list, and a run that threw in the
\* setup has generated, sent and written nothing.
C17_SetupFailsBeforeAnyWork ==
    /\ run.pc \notin {"idle", "thrown"}
          => /\ run.campaignId \in DOMAIN campaignsTbl
             /\ Len(run.contacts) > 0
    /\ (run.pc = "thrown" /\ run.campaignId \notin DOMAIN campaignsTbl)
          => run.thrown \in {"Campaign not found", "db error"}
    /\ (run.pc = "thrown"
        /\ run.thrown \in {"Campaign not found",
                           "No contacts found for this campaign"})
          => /\ run.prewarmed = 0
             /\ run.attempted = 0
             /\ edge["run"] = EdgeIdle
             /\ variationsTbl = <<>>
             /\ genLog = <<>>
             /\ sendLog = NoSend
             /\ run.written = <<>>
             /\ \A k \in DOMAIN recipientsTbl : recipientsTbl[k].status = "pending"

\* campaign c1 exists and has no recipients, the request carries none
C17_Witness ==
    /\ run.pc = "thrown"
    /\ run.campaignId = "c1"
    /\ run.thrown = "No contacts found for this campaign"
    /\ recipientsTbl = <<>>

\* C19: every status write of the dispatch loop goes through withRetry: a
\* write that failed with a retryable error has been attempted more than
\* once before the failure is surfaced.
C19_TransientWriteRetried ==
    (run.statusWrite.attempts > 0 /\ isRetryableError(run.statusWrite.error))
        => run.statusWrite.attempts > 1

\* C20: every rewrite-service call and every transport send is bounded by a
\* caller-side timeout, so a started run ends even when the rewrite service
\* or the transport never answers.
C20_RunEventuallyEnds ==
    (run.pc = "prewarm") ~> (run.pc \in {"done", "thrown"})

\* C18: an upload whose sheet has a row without a name or without a phone
\* is rejected as a whole: no row of that sheet is stored and the
\* campaign's total_contacts is what it was before the request.
C18_InvalidBatchStoresNothing ==
    (\E k \in DOMAIN lastUpload.data : lacksNameOrPhone(lastUpload.data[k]))
        => /\ Len(recipientsTbl) = lastUpload.before
           /\ totalContactsOf(lastUpload.campaignId) = lastUpload.totalBefore
           /\ ~lastUpload.success

\* a sheet whose first row is complete and whose second row has no name was
\* uploaded to an existing campaign that already had a recipient
C18_Witness ==
    /\ Len(lastUpload.data) = 2
    /\ ~lacksNameOrPhone(lastUpload.data[1])
    /\ lastUpload.data[2].name = ""
    /\ lastUpload.campaignId \in DOMAIN campaignsTbl
    /\ lastUpload.before = 1
    /\ lastUpload.totalBefore = 1

\* C24: a recipient is counted sent exactly when its transport send
\* returned, and counted failed exactly when its generation or its send
\* failed: no recipient whose message was transmitted is in the failed
\* list, and between iterations sent is the number of transmitted messages.
C24_TransmittedNeverFailed ==
    /\ \A k \in DOMAIN run.failedAt : run.failedAt[k] \notin run.delivered
    /\ run.pc \in {"iter", "done"} => run.sent = Cardinality(run.delivered)

\* the invocation of caller c answers in this step
Responds(c) == edge[c].pc # "responded" /\ edge'[c].pc = "responded"

\* C25: a generate call that fails (rewrite-service error, malformed or
\* empty result, persistence error) leaves the variation rows unchanged, a
\* successful call adds exactly one row, the one it answers with, and no
\* step updates or deletes an existing row.
C25_VariationsAppendOnly ==
    [][/\ Len(variationsTbl') \in {Len(variationsTbl), Len(variationsTbl) + 1}
       /\ SubSeq(variationsTbl', 1, Len(variationsTbl)) = variationsTbl
       /\ \A c \in Callers :
             Responds(c)
               => IF edge'[c].response.success
                  THEN /\ Len(variationsTbl') = Len(variationsTbl) + 1
                       /\ variationsTbl'[Len(variationsTbl')].campaignId =
                             edge[c].campaignId
                       /\ variationsTbl'[Len(variationsTbl')].message =
                             edge'[c].response.tweaked_message
                  ELSE variationsTbl' = variationsTbl]_vars

\* after one stored variation a second call got a text from Gemini and its
\* insert failed
C25_Witness ==
    /\ Len(variationsTbl) = 1
    /\ \E c \in ExtCallers :
          /\ edge[c].pc = "responded"
          /\ edge[c].response.error = "db_error"
          /\ edge[c].response.variation_number = 2

\* C26: within one run with no other generator active for the campaign the
\* variation numbers used for successive recipients are strictly increasing
\* in dispatch order, and when no variation existed before the run and
\* every generation so far succeeded, recipient i is sent variation number
\* 3 + i (the three pre-warm variations are attached to no recipient).
C26_NumbersIncreaseInDispatchOrder ==
    /\ \A j, k \in DOMAIN run.numbers :
          j < k => run.numbers[j].variationNumber < run.numbers[k].variationNumber
    /\ run.successCount = PrewarmCount
          => \A k \in DOMAIN run.numbers :
                run.numbers[k].i = k
                  => run.numbers[k].variationNumber = PrewarmCount + k

\* C27: a run makes exactly 3 pre-warm generate calls, one after the other,
\* all of them returned (successfully or not) before the first recipient's
\* iteration begins, and goes on to the recipients however many of them
\* failed: during the pre-warm no recipient has been touched, after it three
\* calls have returned, and no run ends in the pre-warm.
C27_PrewarmThenDispatch ==
    /\ run.prewarmed <= PrewarmCount
    /\ run.successCount <= run.prewarmed
    /\ run.pc \in {"prewarm", "prewarmGen"}
          => /\ run.prewarmed < PrewarmCount
             /\ run.i = 0 /\ run.attempted = 0
             /\ sendLog = NoSend
             /\ run.pc = "prewarm" => edge["run"] = EdgeIdle
    /\ (run.i > 0 \/ run.attempted > 0 \/ run.pc = "done")
          => run.prewarmed = PrewarmCount
    /\ (run.pc = "thrown" /\ run.attempted = 0) => run.prewarmed = 0
    /\ Len(variationsTbl) <= run.prewarmed + run.attempted
                               + (IF run.pc = "prewarmGen" THEN 1 ELSE 0)

\* all three pre-warm calls failed and both recipients were sent their
\* message
C27_Witness ==
    /\ run.pc = "done"
    /\ run.prewarmed = PrewarmCount
    /\ run.successCount = 0
    /\ Len(run.contacts) = 2
    /\ run.sent = 2

\* ------------------------------------------------------------------------
\* Properties of generateVariation
\* ------------------------------------------------------------------------
\* the rewrite call of the last generateVariation failed: fetch rejected,
\* the status is not 2xx, the body is no JSON, the payload says
\* success = false, or the text is empty or whitespace only
RewriteCallFailed ==
    \/ ~pure.netOk
    \/ pure.response.status \notin 200..299
    \/ ~pure.response.json
    \/ ~pure.response.success
    \/ \A k \in DOMAIN pure.response.tweaked_message :
          pure.response.tweaked_message[k] = Lit(" ")

\* C21: generateVariation never throws: every failure of the rewrite call
\* (network exception, non-2xx status, success = false payload, empty or
\* whitespace-only text) is returned as a result with success = false,
\* variationNumber = 0 and a diagnostic error message.
C21_FailureIsReturned ==
    pure.op = "generateVariation"
        => /\ ~pure.thrown
           /\ RewriteCallFailed
                 => /\ ~pure.result.success
                    /\ pure.result.variationNumber = 0
                    /\ pure.result.error # ""

\* the service answered 200 and success with a numbered, whitespace-only
\* text: the call returned a failure
C21_Witness ==
    /\ pure.op = "generateVariation"
    /\ pure.netOk
    /\ pure.response.status = 200
    /\ pure.response.success
    /\ pure.response.json
    /\ pure.response.tweaked_message = Blank
    /\ pure.response.variation_number = 4
    /\ ~pure.result.success
    /\ pure.result.error = "Generated message is empty"

\* ------------------------------------------------------------------------
\* Properties of the stop option
\* ------------------------------------------------------------------------
\* C22: for a campaign created with the 'include stop option' flag, every
\* message a dispatch run hands to the transport carries the stop
\* instructions, whether or not the campaign also defines buttons.
C22_StopInstructionsCarried ==
    (sendLog.i > 0 /\ run.campaignId \in stopOption)
        => \E k \in DOMAIN sendLog.fullMessage :
              sendLog.fullMessage[k] \in {StopInstructions[j] :
                                            j \in DOMAIN StopInstructions}

\* an incoming STOP text (trimmed, any letter case) or a click on the
\* STOP_MESSAGES button
IsStopRequest(msg) ==
    /\ ~msg.fromMe
    /\ \/ msg.kind = "button" /\ msg.buttonId = "STOP_MESSAGES"
       \/ /\ msg.kind = "text"
          /\ msg.text \in {<<"S", "T", "O", "P">>, <<" ", "s", "t", "o", "p", " ">>}

\* C23: after an incoming STOP text or a STOP_MESSAGES button click from
\* phone P has been handled, P is in the blocklist unless the insertion
\* failed, and the confirmation has gone only to phones whose insertion
\* succeeded.
C23_StopRequestBlocks ==
    /\ \A k \in DOMAIN inbound.messages :
          (IsStopRequest(inbound.messages[k])
           /\ inbound.messages[k].phone \notin inbound.insertFailed)
             => isNumberBlocked(inbound.messages[k].phone)
    /\ inbound.messages # <<>> => inbound.confirmed \subseteq inbound.inserted

====
